---- MODULE Spec2Model ----
(***************************************************************************)
(* Index repositories (FAISS vector / caption / image, BM25) and the       *)
(* ProductService that fans product mutations out to them.                 *)
(*                                                                         *)
(* Specifications:                                                         *)
(*   Spec         one repository instance driven directly through its      *)
(*                mutation and search methods (the repositories share no   *)
(*                state, so a behaviour exercises the instance named by    *)
(*                `target`);                                               *)
(*   SpecPersist  one FAISS repository instance and its snapshot           *)
(*                directory: mutations, save_index and load_index;         *)
(*   SpecService  a ProductService driving its four repositories;          *)
(*   SpecFusion   the rank-fusion and score-combination functions;         *)
(*   SpecSearch   the SearchService methods over a small catalog;          *)
(*   SpecStrategy the multi-stage pipeline of MultiStageService.           *)
(***************************************************************************)
EXTENDS Integers, Sequences, FiniteSets, TLC

VARIABLES
    vector_repo,    \* ProductService.vector_repo  : VectorRepository
    bm25_repo,      \* ProductService.bm25_repo    : BM25Repository
    image_repo,     \* ProductService.image_repo   : ImageRepository
    caption_repo,   \* ProductService.caption_repo : CaptionRepository
    disk,           \* the snapshot directories: per FAISS repository the index file and metadata.pkl
    target,         \* which object a behaviour drives
    call,           \* the last call made: the method and its arguments
    outcome,        \* how the last call ended: "ok" or the exception raised
    result,         \* what the last search returned
    requests,       \* the repository and search-primitive queries made by the last call, in order
    pipeline,       \* the multi-stage pipeline being executed: its configuration and progress
    threads         \* the calls in flight when calls overlap or run in steps: per thread its
                    \* method, arguments, position and locals

vars == <<vector_repo, bm25_repo, image_repo, caption_repo, disk, target, call, outcome, result,
          requests, pipeline, threads>>

(***************************************************************************)
(* Bounds                                                                  *)
(***************************************************************************)
MaxNtotal == 3          \* cap on index.ntotal (the FAISS index grows without bound)
MaxK == 3               \* search k ranges over 1..MaxK

(***************************************************************************)
(* Input domains                                                           *)
(***************************************************************************)
ProductIds == {"p1", "p2"}
Titles == {"t1", "t2"}
Descriptions == {"d1"}
ImageUrls == {"i1", "i2"}

\* Product dataclass (id, title, description, image_url); every field non-blank
Product ==
    {p \in [id : ProductIds, title : Titles, description : Descriptions, image_url : ImageUrls] :
        (p.title = "t1") <=> (p.image_url = "i1")}

\* Product.get_combined_text: f"{title} {description}"
get_combined_text(p) == <<p.title, p.description>>

\* the caption the captioning API gives for an image when it answers
CaptionOf(image) == <<"caption", image>>

Texts == {get_combined_text(p) : p \in Product} \cup {CaptionOf(i) : i \in ImageUrls}

\* EmbeddingService.generate_embedding on a successful API call: a fixed vector per text
Embed(text) ==
    CASE text = <<"t1", "d1">> -> <<0, 0>>
      [] text = <<"t2", "d1">> -> <<2, 0>>
      [] text = <<"caption", "i1">> -> <<0, 2>>
      [] text = <<"caption", "i2">> -> <<2, 2>>

\* ImageService._compute_image_embedding: a fixed vector per image
EmbedImage(image) == IF image = "i1" THEN <<0, 1>> ELSE <<3, 1>>

\* Optional[...] values: None and a present value
None == {}
Some(x) == {x}
TheValue(o) == CHOOSE x \in o : TRUE

\* an empty dict
EmptyMap == [x \in {} |-> x]

(***************************************************************************)
(* Python dict[str, Product] keeps insertion order: a sequence of products *)
(* with distinct ids.                                                      *)
(***************************************************************************)
Keys(products) == {products[i].id : i \in 1..Len(products)}

\* products[id]
GetProduct(products, id) == products[CHOOSE i \in 1..Len(products) : products[i].id = id]

\* products[p.id] = p : replaces in place or appends
RECURSIVE PutProduct(_, _)
PutProduct(products, p) ==
    IF products = <<>> THEN <<p>>
    ELSE IF Head(products).id = p.id THEN <<p>> \o Tail(products)
    ELSE <<Head(products)>> \o PutProduct(Tail(products), p)

\* del products[id]
DelProduct(products, id) == SelectSeq(products, LAMBDA q : q.id # id)

RECURSIVE PutAll(_, _)
PutAll(products, plist) ==
    IF plist = <<>> THEN products
    ELSE PutAll(PutProduct(products, Head(plist)), Tail(plist))

\* dict item assignment d[k] = v
MapPut(d, k, v) == [x \in DOMAIN d \cup {k} |-> IF x = k THEN v ELSE d[x]]

\* del d[k]
MapDel(d, k) == [x \in DOMAIN d \ {k} |-> d[x]]

\* for i, product in enumerate(plist): d[f(i, product)] = g(i, product)
RECURSIVE SlotToId(_, _, _)
SlotToId(d, plist, base) ==
    IF plist = <<>> THEN d
    ELSE SlotToId(MapPut(d, base, Head(plist).id), Tail(plist), base + 1)

RECURSIVE IdToSlot(_, _, _)
IdToSlot(d, plist, base) ==
    IF plist = <<>> THEN d
    ELSE IdToSlot(MapPut(d, Head(plist).id, base), Tail(plist), base + 1)

\* ntotal of an Optional index (0 when None)
Ntotal(index) == IF index = None THEN 0 ELSE Len(TheValue(index))

\* the outcome of a method: the object's state afterwards and the exception raised ("ok" if none)
Ret(repo, raised) == [repo |-> repo, raised |-> raised]

(***************************************************************************)
(* VectorRepository                                                        *)
(***************************************************************************)
\* VectorRepository.__init__
VectorRepositoryInit ==
    [index |-> None, product_id_map |-> EmptyMap, id_to_index_map |-> EmptyMap,
     products |-> <<>>, next_index |-> 0]

\* _initialize_index: a new IndexFlatL2 only when there is none
initialize_index(index) == IF index = None THEN Some(<<>>) ELSE index

\* index.add(embeddings_array): FAISS appends the vectors
IndexAdd(index, embeddings) == Some(TheValue(index) \o embeddings)

\* generate_embeddings_batch([p.get_combined_text() for p in products]) when the API answers
RECURSIVE TextEmbeddings(_)
TextEmbeddings(plist) ==
    IF plist = <<>> THEN <<>>
    ELSE <<Embed(get_combined_text(Head(plist)))>> \o TextEmbeddings(Tail(plist))

\* VectorRepository.create_index(products); embOk: the batch embedding call succeeds
VecCreateIndex(repo, plist, embOk) ==
    IF plist = <<>> THEN Ret(repo, "ValueError")
    ELSE IF ~embOk THEN Ret(repo, "Exception")
    ELSE LET embeddings == TextEmbeddings(plist)
         IN Ret([index |-> IndexAdd(initialize_index(repo.index), embeddings),
                 product_id_map |-> SlotToId(repo.product_id_map, plist, repo.next_index),
                 id_to_index_map |-> IdToSlot(repo.id_to_index_map, plist, repo.next_index),
                 products |-> PutAll(repo.products, plist),
                 next_index |-> repo.next_index + Len(plist)], "ok")

\* VectorRepository._rebuild_index
VecRebuildIndex(repo, embOk) ==
    IF repo.products = <<>>
    THEN Ret([repo EXCEPT !.index = None, !.product_id_map = EmptyMap,
                          !.id_to_index_map = EmptyMap, !.next_index = 0], "ok")
    ELSE VecCreateIndex([repo EXCEPT !.product_id_map = EmptyMap,
                                     !.id_to_index_map = EmptyMap, !.next_index = 0],
                        repo.products, embOk)

\* add_product without its duplicate check
VecAddProduct_NoDuplicateCheck(repo, p, embOk) ==
    LET inited == [repo EXCEPT !.index = initialize_index(repo.index)]
    IN IF ~embOk THEN Ret(inited, "Exception")
       ELSE Ret([index |-> IndexAdd(inited.index, <<Embed(get_combined_text(p))>>),
                 product_id_map |-> MapPut(repo.product_id_map, repo.next_index, p.id),
                 id_to_index_map |-> MapPut(repo.id_to_index_map, p.id, repo.next_index),
                 products |-> PutProduct(repo.products, p),
                 next_index |-> repo.next_index + 1], "ok")

\* VectorRepository.add_product(product)
VecAddProduct(repo, p, embOk) ==
    IF p.id \in Keys(repo.products) THEN Ret(repo, "ValueError")
    ELSE LET inited == [repo EXCEPT !.index = initialize_index(repo.index)]
         IN IF ~embOk THEN Ret(inited, "Exception")
            ELSE Ret([index |-> IndexAdd(inited.index, <<Embed(get_combined_text(p))>>),
                      product_id_map |-> MapPut(repo.product_id_map, repo.next_index, p.id),
                      id_to_index_map |-> MapPut(repo.id_to_index_map, p.id, repo.next_index),
                      products |-> PutProduct(repo.products, p),
                      next_index |-> repo.next_index + 1], "ok")

\* VectorRepository.update_product(product)
VecUpdateProduct(repo, p, embOk) ==
    IF p.id \notin Keys(repo.products) THEN Ret(repo, "ValueError")
    ELSE VecRebuildIndex([repo EXCEPT !.products = PutProduct(repo.products, p)], embOk)

\* VectorRepository.delete_product(product_id)
VecDeleteProduct(repo, id, embOk) ==
    IF id \notin Keys(repo.products) THEN Ret(repo, "ValueError")
    ELSE IF id \notin DOMAIN repo.id_to_index_map THEN Ret(repo, "KeyError")
    ELSE VecRebuildIndex([repo EXCEPT
                              !.product_id_map = MapDel(repo.product_id_map, repo.id_to_index_map[id]),
                              !.id_to_index_map = MapDel(repo.id_to_index_map, id),
                              !.products = DelProduct(repo.products, id)], embOk)

(***************************************************************************)
(* FAISS IndexFlatL2.search and the conversion of its hits                 *)
(***************************************************************************)
\* squared L2 distance, as IndexFlatL2 reports it
L2(a, b) == (a[1] - b[1]) * (a[1] - b[1]) + (a[2] - b[2]) * (a[2] - b[2])

\* the k nearest of the slots in `left`, nearest first; slots at equal distance may
\* come in either order, so this is the set of answers FAISS may give
RECURSIVE Nearest(_, _, _, _)
Nearest(vecs, q, k, left) ==
    IF k = 0 \/ left = {} THEN {<<>>}
    ELSE LET closest == {x \in left : \A y \in left : L2(vecs[x + 1], q) <= L2(vecs[y + 1], q)}
         IN UNION {{<<x>> \o rest : rest \in Nearest(vecs, q, k - 1, left \ {x})} : x \in closest}

\* index.search(q, k): the k nearest slots (0-based)
IndexSearch(vecs, q, k) == Nearest(vecs, q, k, 0..(Len(vecs) - 1))

\* similarity_score = 1.0 / (1.0 + distance), kept as a fraction
Similarity(distance) == [num |-> 1, den |-> 1 + distance]

\* the loop over zip(distances[0], indices[0]): hits whose slot is in product_id_map
RECURSIVE HitsToResults(_, _, _, _)
HitsToResults(slots, vecs, q, product_id_map) ==
    IF slots = <<>> THEN <<>>
    ELSE LET rest == HitsToResults(Tail(slots), vecs, q, product_id_map)
             slot == Head(slots)
         IN IF slot \in DOMAIN product_id_map
            THEN <<[id |-> product_id_map[slot],
                    score |-> Similarity(L2(vecs[slot + 1], q))]>> \o rest
            ELSE rest

Min(a, b) == IF a < b THEN a ELSE b

\* search_by_embedding(embedding, k) of the FAISS repositories, and the tail of
\* search_similar: the set of result lists the call may return
SearchByEmbedding(repo, q, k) ==
    IF repo.index = None \/ Ntotal(repo.index) = 0 THEN {<<>>}
    ELSE LET vecs == TheValue(repo.index)
         IN {HitsToResults(s, vecs, q, repo.product_id_map) :
                s \in IndexSearch(vecs, q, Min(k, Len(vecs)))}

\* a blank query string
BlankQuery == <<>>

\* VectorRepository.search_similar(query, k): the set of [result, raised] it may end with
VecSearchSimilar(repo, query, k, embOk) ==
    IF query = BlankQuery THEN {[result |-> <<>>, raised |-> "ValueError"]}
    ELSE IF repo.index = None \/ Ntotal(repo.index) = 0 THEN {[result |-> <<>>, raised |-> "ok"]}
    ELSE IF ~embOk THEN {[result |-> <<>>, raised |-> "Exception"]}
    ELSE {[result |-> r, raised |-> "ok"] : r \in SearchByEmbedding(repo, Embed(query), k)}

(***************************************************************************)
(* Snapshots on disk: the index file and metadata.pkl of one directory     *)
(***************************************************************************)
\* a directory holding neither file
NoSnapshot ==
    [index_file |-> "absent", index_data |-> <<>>,
     metadata_file |-> "absent", metadata |-> VectorRepositoryInit]

\* the metadata dict pickled by save_index
Metadata(repo) == [repo EXCEPT !.index = None]

\* save_index(path). fail: where an I/O error interrupts it ("none": it does not)
\*   "write_index"   faiss.write_index stops part-way: the index file is left truncated
\*   "open_metadata" the index file is written, metadata.pkl cannot be opened
\*   "dump_metadata" the index file is written, pickle.dump stops part-way
SaveIndex(repo, snap, fail) ==
    IF repo.index = None THEN [snap |-> snap, raised |-> "ok"]
    ELSE IF fail = "write_index"
    THEN [snap |-> [snap EXCEPT !.index_file = "corrupt", !.index_data = <<>>], raised |-> "IOError"]
    ELSE LET written == [snap EXCEPT !.index_file = "ok", !.index_data = TheValue(repo.index)]
         IN IF fail = "open_metadata" THEN [snap |-> written, raised |-> "IOError"]
            ELSE IF fail = "dump_metadata"
            THEN [snap |-> [written EXCEPT !.metadata_file = "corrupt",
                                           !.metadata = VectorRepositoryInit],
                  raised |-> "IOError"]
            ELSE [snap |-> [written EXCEPT !.metadata_file = "ok", !.metadata = Metadata(repo)],
                  raised |-> "ok"]

\* load_index reading whatever is there when either file exists
LoadIndex_EitherFile(repo, snap) ==
    IF snap.index_file # "absent" \/ snap.metadata_file # "absent"
    THEN IF snap.index_file = "corrupt" THEN Ret(repo, "Exception")
         ELSE IF snap.metadata_file = "corrupt"
         THEN Ret([repo EXCEPT !.index = Some(snap.index_data)], "Exception")
         ELSE Ret([index |-> Some(snap.index_data),
                   product_id_map |-> snap.metadata.product_id_map,
                   id_to_index_map |-> snap.metadata.id_to_index_map,
                   products |-> snap.metadata.products,
                   next_index |-> snap.metadata.next_index], "ok")
    ELSE Ret(repo, "ok")

\* load_index(path)
LoadIndex(repo, snap) ==
    IF snap.index_file # "absent" /\ snap.metadata_file # "absent"
    THEN IF snap.index_file = "corrupt" THEN Ret(repo, "Exception")
         ELSE LET withIndex == [repo EXCEPT !.index = Some(snap.index_data)]
              IN IF snap.metadata_file = "corrupt" THEN Ret(withIndex, "Exception")
                 ELSE Ret([index |-> Some(snap.index_data),
                           product_id_map |-> snap.metadata.product_id_map,
                           id_to_index_map |-> snap.metadata.id_to_index_map,
                           products |-> snap.metadata.products,
                           next_index |-> snap.metadata.next_index], "ok")
    ELSE Ret(repo, "ok")

(***************************************************************************)
(* CaptionRepository                                                       *)
(***************************************************************************)
\* CaptionRepository.__init__ (dimension stays None throughout and is left out)
CaptionRepositoryInit == VectorRepositoryInit

\* CaptionRepository.create_index(products): after the captions are generated the
\* batch embedding call names `texts`, which is not defined: NameError, before any
\* assignment to the repository
CapCreateIndex(repo, plist) ==
    IF plist = <<>> THEN Ret(repo, "ValueError") ELSE Ret(repo, "NameError")

\* CaptionRepository._rebuild_index
CapRebuildIndex(repo) ==
    IF repo.products = <<>>
    THEN Ret([repo EXCEPT !.index = None, !.product_id_map = EmptyMap,
                          !.id_to_index_map = EmptyMap, !.next_index = 0], "ok")
    ELSE CapCreateIndex([repo EXCEPT !.product_id_map = EmptyMap,
                                     !.id_to_index_map = EmptyMap, !.next_index = 0],
                        repo.products)

\* CaptionRepository.add_caption(product) with ImageService.generar_descripcion_imagen.
\* cap: what the captioning call does
\*   "text"  returns a caption
\*   "blank" returns "" (add_caption logs a warning and returns)
\*   "raise" the API call raises: generar_descripcion_imagen logs it and then returns the
\*           unassigned local `caption`, which raises UnboundLocalError
CapAddCaption(repo, p, cap, embOk) ==
    IF p.id \in Keys(repo.products) THEN Ret(repo, "ValueError")
    ELSE IF cap = "raise" THEN Ret(repo, "UnboundLocalError")
    ELSE IF cap = "blank" THEN Ret(repo, "ok")
    ELSE IF ~embOk THEN Ret(repo, "Exception")
    ELSE Ret([index |-> IndexAdd(initialize_index(repo.index), <<Embed(CaptionOf(p.image_url))>>),
              product_id_map |-> MapPut(repo.product_id_map, repo.next_index, p.id),
              id_to_index_map |-> MapPut(repo.id_to_index_map, p.id, repo.next_index),
              products |-> PutProduct(repo.products, p),
              next_index |-> repo.next_index + 1], "ok")

\* CaptionRepository.update_caption(product)
CapUpdateCaption(repo, p) ==
    IF p.id \notin Keys(repo.products) THEN Ret(repo, "ValueError")
    ELSE CapRebuildIndex([repo EXCEPT !.products = PutProduct(repo.products, p)])

\* CaptionRepository.delete_caption(caption_id)
CapDeleteCaption(repo, id) ==
    IF id \notin Keys(repo.products) THEN Ret(repo, "ValueError")
    ELSE IF id \notin DOMAIN repo.id_to_index_map THEN Ret(repo, "KeyError")
    ELSE CapRebuildIndex([repo EXCEPT
                              !.product_id_map = MapDel(repo.product_id_map, repo.id_to_index_map[id]),
                              !.id_to_index_map = MapDel(repo.id_to_index_map, id),
                              !.products = DelProduct(repo.products, id)])

(***************************************************************************)
(* BM25Repository                                                          *)
(***************************************************************************)
DEFAULT_TOP_K == 10

\* BM25Repository.__init__
BM25RepositoryInit == [retriever |-> None, products |-> <<>>, documents |-> <<>>]

\* ProductDocument(product)
ProductDocument(p) == [product_id |-> p.id, page_content |-> get_combined_text(p)]

\* BM25Retriever.from_documents(documents) followed by retriever.k = DEFAULT_TOP_K
NewRetriever(documents) == Some([docs |-> documents, k |-> DEFAULT_TOP_K])

RECURSIVE DocumentsOf(_)
DocumentsOf(plist) ==
    IF plist = <<>> THEN <<>>
    ELSE <<ProductDocument(Head(plist))>> \o DocumentsOf(Tail(plist))

\* BM25Repository.rebuild_index
BM25RebuildIndex(repo) ==
    IF repo.documents = <<>> THEN [repo EXCEPT !.retriever = None]
    ELSE [repo EXCEPT !.retriever = NewRetriever(repo.documents)]

\* BM25Repository.create_index(products)
BM25CreateIndex(repo, plist) ==
    IF plist = <<>> THEN Ret(repo, "ValueError")
    ELSE Ret([retriever |-> NewRetriever(DocumentsOf(plist)),
              products |-> PutAll(<<>>, plist),
              documents |-> DocumentsOf(plist)], "ok")

\* BM25Repository.add_product(product)
BM25AddProduct(repo, p) ==
    IF p.id \in Keys(repo.products) THEN Ret(repo, "ValueError")
    ELSE Ret(BM25RebuildIndex([repo EXCEPT !.products = PutProduct(repo.products, p),
                                           !.documents = Append(repo.documents, ProductDocument(p))]),
             "ok")

\* the loop of update_product: the first document of that product is replaced
RECURSIVE ReplaceFirstDocument(_, _)
ReplaceFirstDocument(documents, p) ==
    IF documents = <<>> THEN <<>>
    ELSE IF Head(documents).product_id = p.id THEN <<ProductDocument(p)>> \o Tail(documents)
    ELSE <<Head(documents)>> \o ReplaceFirstDocument(Tail(documents), p)

\* BM25Repository.update_product(product)
BM25UpdateProduct(repo, p) ==
    IF p.id \notin Keys(repo.products) THEN Ret(repo, "ValueError")
    ELSE Ret(BM25RebuildIndex([repo EXCEPT !.products = PutProduct(repo.products, p),
                                           !.documents = ReplaceFirstDocument(repo.documents, p)]),
             "ok")

\* BM25Repository.delete_product(product_id)
BM25DeleteProduct(repo, id) ==
    IF id \notin Keys(repo.products) THEN Ret(repo, "ValueError")
    ELSE Ret(BM25RebuildIndex([repo EXCEPT
                 !.products = DelProduct(repo.products, id),
                 !.documents = SelectSeq(repo.documents, LAMBDA d : d.product_id # id)]),
             "ok")

\* BM25Repository.clear_index
BM25ClearIndex(repo) == BM25RepositoryInit

\* a Python float, kept as an exact fraction
Frac(n, d) == [num |-> n, den |-> d]

\* the ways to pick n of the retriever's documents in some order of relevance
RankedDocs(docs, n) ==
    {r \in [1..n -> 1..Len(docs)] : \A i, j \in 1..n : i # j => r[i] # r[j]}

\* the loop over docs: score = 1.0 / (len(results) + 1)
RECURSIVE DocsToResults(_, _, _)
DocsToResults(docs, picked, results) ==
    IF picked = <<>> THEN results
    ELSE DocsToResults(docs, Tail(picked),
                       Append(results, [id |-> docs[Head(picked)].product_id,
                                        score |-> Frac(1, Len(results) + 1)]))

\* search_keywords leaving retriever.k as it finds it
BM25SearchKeywords_KeepsRetrieverK(repo, query, k) ==
    IF query = BlankQuery THEN {[result |-> <<>>, raised |-> "ValueError"]}
    ELSE IF repo.retriever = None \/ repo.documents = <<>>
    THEN {[result |-> <<>>, raised |-> "ok"]}
    ELSE LET docs == TheValue(repo.retriever).docs
         IN {[result |-> DocsToResults(docs, picked, <<>>), raised |-> "ok"] :
                picked \in RankedDocs(docs, Min(TheValue(repo.retriever).k, Len(docs)))}

\* BM25Repository.search_keywords(query, k): the set of [result, raised] it may end
\* with; the retriever ranks its documents by a relevance the model leaves open
BM25SearchKeywords(repo, query, k) ==
    IF query = BlankQuery THEN {[result |-> <<>>, raised |-> "ValueError"]}
    ELSE IF repo.retriever = None \/ repo.documents = <<>>
    THEN {[result |-> <<>>, raised |-> "ok"]}
    ELSE LET docs == TheValue(repo.retriever).docs
         IN {[result |-> DocsToResults(docs, picked, <<>>), raised |-> "ok"] :
                picked \in RankedDocs(docs, Min(Min(k, Len(repo.documents)), Len(docs)))}

(***************************************************************************)
(* ImageRepository: the generic index repository of the design, over       *)
(* image embeddings                                                        *)
(***************************************************************************)
ImageRepositoryInit == VectorRepositoryInit

RECURSIVE ImageEmbeddings(_)
ImageEmbeddings(plist) ==
    IF plist = <<>> THEN <<>>
    ELSE <<EmbedImage(Head(plist).image_url)>> \o ImageEmbeddings(Tail(plist))

\* the full rebuild of the index from the product set
ImgRebuilt(products) ==
    IF products = <<>> THEN ImageRepositoryInit
    ELSE [index |-> Some(ImageEmbeddings(products)),
          product_id_map |-> SlotToId(EmptyMap, products, 0),
          id_to_index_map |-> IdToSlot(EmptyMap, products, 0),
          products |-> products,
          next_index |-> Len(products)]

\* Add(product, vector): AlreadyExists if indexed; appends
ImgAddImage(repo, p, embOk) ==
    IF p.id \in Keys(repo.products) THEN Ret(repo, "ValueError")
    ELSE IF ~embOk THEN Ret(repo, "Exception")
    ELSE Ret([index |-> IndexAdd(initialize_index(repo.index), <<EmbedImage(p.image_url)>>),
              product_id_map |-> MapPut(repo.product_id_map, repo.next_index, p.id),
              id_to_index_map |-> MapPut(repo.id_to_index_map, p.id, repo.next_index),
              products |-> PutProduct(repo.products, p),
              next_index |-> repo.next_index + 1], "ok")

\* Update(product, vector): NotFound if absent; full rebuild
ImgUpdateImage(repo, p, embOk) ==
    IF p.id \notin Keys(repo.products) THEN Ret(repo, "ValueError")
    ELSE IF ~embOk THEN Ret(repo, "Exception")
    ELSE Ret(ImgRebuilt(PutProduct(repo.products, p)), "ok")

\* Delete(id): NotFound if absent; removes and rebuilds
ImgDeleteImage(repo, id) ==
    IF id \notin Keys(repo.products) THEN Ret(repo, "ValueError")
    ELSE Ret(ImgRebuilt(DelProduct(repo.products, id)), "ok")

(***************************************************************************)
(* State after construction                                                *)
(***************************************************************************)
\* a record of one call: the method, and the arguments it was given
Call(op, id, product, plist, query, k) ==
    [op |-> op, id |-> id, product |-> product, plist |-> plist, query |-> query, k |-> k]

NoCall == Call("init", "", None, <<>>, BlankQuery, 0)

\* the products written to snapshots: one per id
SnapshotProducts == {p \in Product : (p.id = "p1") <=> (p.title = "t1")}

\* the argument lists of create_index: up to two products with distinct ids
ProductLists ==
    {<<>>} \cup {<<p>> : p \in Product}
           \cup {<<pq[1], pq[2]>> : pq \in {x \in SnapshotProducts \X SnapshotProducts : x[1].id # x[2].id}}

Queries == {get_combined_text(p) : p \in Product} \cup {BlankQuery}

\* the probe vectors handed to search_by_embedding
Probes == {Embed(CaptionOf(i)) : i \in ImageUrls} \cup {EmbedImage("i1")}

SaveFailures == {"none", "write_index", "open_metadata", "dump_metadata"}

CaptionGateway == {"text", "blank", "raise"}

\* no pipeline has been started
NoPipeline == [status |-> "none"]

\* no call is in flight
NoThreads == <<>>

InitCommon ==
    /\ vector_repo = VectorRepositoryInit
    /\ bm25_repo = BM25RepositoryInit
    /\ image_repo = ImageRepositoryInit
    /\ caption_repo = CaptionRepositoryInit
    /\ disk = [vector |-> NoSnapshot, image |-> NoSnapshot, caption |-> NoSnapshot]
    /\ call = NoCall
    /\ outcome = "ok"
    /\ result = <<>>
    /\ requests = <<>>
    /\ pipeline = NoPipeline
    /\ threads = NoThreads

Init == InitCommon /\ target \in {"vector", "bm25", "image", "caption"}

InitPersist == InitCommon /\ target \in {"vector", "caption"}

(***************************************************************************)
(* VectorRepository driven directly                                        *)
(***************************************************************************)
\* the repository is left as r.repo and the call ends as r.raised
VectorEnds(r, c) ==
    /\ Ntotal(r.repo.index) <= MaxNtotal
    /\ vector_repo' = r.repo
    /\ outcome' = r.raised
    /\ call' = c
    /\ result' = <<>>
    /\ UNCHANGED <<bm25_repo, image_repo, caption_repo, disk, target, requests, pipeline, threads>>

VAdd(inputs) ==
    /\ target = "vector"
    /\ \E p \in inputs, embOk \in BOOLEAN :
          VectorEnds(VecAddProduct(vector_repo, p, embOk),
                     Call("add", p.id, Some(p), <<>>, BlankQuery, 0))

VUpdate(inputs) ==
    /\ target = "vector"
    /\ \E p \in inputs, embOk \in BOOLEAN :
          VectorEnds(VecUpdateProduct(vector_repo, p, embOk),
                     Call("update", p.id, Some(p), <<>>, BlankQuery, 0))

VDelete ==
    /\ target = "vector"
    /\ \E id \in ProductIds, embOk \in BOOLEAN :
          VectorEnds(VecDeleteProduct(vector_repo, id, embOk),
                     Call("delete", id, None, <<>>, BlankQuery, 0))

VAddProduct == VAdd(Product)

VUpdateProduct == VUpdate(Product)

VDeleteProduct == VDelete

VCreateIndex ==
    /\ target = "vector"
    /\ \E plist \in ProductLists, embOk \in BOOLEAN :
          VectorEnds(VecCreateIndex(vector_repo, plist, embOk),
                     Call("create_index", "", None, plist, BlankQuery, 0))

VSearchSimilar ==
    /\ target = "vector"
    /\ \E query \in Queries, k \in 1..MaxK, embOk \in BOOLEAN :
          \E r \in VecSearchSimilar(vector_repo, query, k, embOk) :
              /\ result' = r.result
              /\ outcome' = r.raised
              /\ call' = Call("search", "", None, <<>>, query, k)
    /\ UNCHANGED <<vector_repo, bm25_repo, image_repo, caption_repo, disk, target, requests, pipeline, threads>>

(***************************************************************************)
(* CaptionRepository driven directly                                       *)
(***************************************************************************)
CaptionEnds(r, c) ==
    /\ Ntotal(r.repo.index) <= MaxNtotal
    /\ caption_repo' = r.repo
    /\ outcome' = r.raised
    /\ call' = c
    /\ result' = <<>>
    /\ UNCHANGED <<vector_repo, bm25_repo, image_repo, disk, target, requests, pipeline, threads>>

CAdd(inputs) ==
    /\ target = "caption"
    /\ \E p \in inputs, cap \in CaptionGateway, embOk \in BOOLEAN :
          CaptionEnds(CapAddCaption(caption_repo, p, cap, embOk),
                      Call("add", p.id, Some(p), <<>>, BlankQuery, 0))

CUpdate(inputs) ==
    /\ target = "caption"
    /\ \E p \in inputs :
          CaptionEnds(CapUpdateCaption(caption_repo, p),
                      Call("update", p.id, Some(p), <<>>, BlankQuery, 0))

CDelete ==
    /\ target = "caption"
    /\ \E id \in ProductIds :
          CaptionEnds(CapDeleteCaption(caption_repo, id),
                      Call("delete", id, None, <<>>, BlankQuery, 0))

CAddCaption == CAdd(Product)

CUpdateCaption == CUpdate(Product)

CDeleteCaption == CDelete

CCreateIndex ==
    /\ target = "caption"
    /\ \E plist \in ProductLists :
          CaptionEnds(CapCreateIndex(caption_repo, plist),
                      Call("create_index", "", None, plist, BlankQuery, 0))

CSearchByEmbedding ==
    /\ target = "caption"
    /\ \E q \in Probes, k \in 1..MaxK :
          \E r \in SearchByEmbedding(caption_repo, q, k) :
              /\ result' = r
              /\ call' = Call("search", "", None, <<>>, q, k)
    /\ outcome' = "ok"
    /\ UNCHANGED <<vector_repo, bm25_repo, image_repo, caption_repo, disk, target, requests, pipeline, threads>>

(***************************************************************************)
(* BM25Repository driven directly                                          *)
(***************************************************************************)
BM25Ends(r, c) ==
    /\ bm25_repo' = r.repo
    /\ outcome' = r.raised
    /\ call' = c
    /\ result' = <<>>
    /\ UNCHANGED <<vector_repo, image_repo, caption_repo, disk, target, requests, pipeline, threads>>

BAddProduct ==
    /\ target = "bm25"
    /\ \E p \in Product :
          BM25Ends(BM25AddProduct(bm25_repo, p),
                   Call("add", p.id, Some(p), <<>>, BlankQuery, 0))

BUpdateProduct ==
    /\ target = "bm25"
    /\ \E p \in Product :
          BM25Ends(BM25UpdateProduct(bm25_repo, p),
                   Call("update", p.id, Some(p), <<>>, BlankQuery, 0))

BDeleteProduct ==
    /\ target = "bm25"
    /\ \E id \in ProductIds :
          BM25Ends(BM25DeleteProduct(bm25_repo, id),
                   Call("delete", id, None, <<>>, BlankQuery, 0))

BCreateIndex ==
    /\ target = "bm25"
    /\ \E plist \in ProductLists :
          BM25Ends(BM25CreateIndex(bm25_repo, plist),
                   Call("create_index", "", None, plist, BlankQuery, 0))

BSearchKeywords ==
    /\ target = "bm25"
    /\ \E query \in Queries, k \in 1..MaxK :
          \E r \in BM25SearchKeywords(bm25_repo, query, k) :
              /\ result' = r.result
              /\ outcome' = r.raised
              /\ call' = Call("search", "", None, <<>>, query, k)
    /\ UNCHANGED <<vector_repo, bm25_repo, image_repo, caption_repo, disk, target, requests, pipeline, threads>>

(***************************************************************************)
(* ImageRepository driven directly                                         *)
(***************************************************************************)
ImageEnds(r, c) ==
    /\ Ntotal(r.repo.index) <= MaxNtotal
    /\ image_repo' = r.repo
    /\ outcome' = r.raised
    /\ call' = c
    /\ result' = <<>>
    /\ UNCHANGED <<vector_repo, bm25_repo, caption_repo, disk, target, requests, pipeline, threads>>

IAddImage ==
    /\ target = "image"
    /\ \E p \in Product, embOk \in BOOLEAN :
          ImageEnds(ImgAddImage(image_repo, p, embOk),
                    Call("add", p.id, Some(p), <<>>, BlankQuery, 0))

IUpdateImage ==
    /\ target = "image"
    /\ \E p \in Product, embOk \in BOOLEAN :
          ImageEnds(ImgUpdateImage(image_repo, p, embOk),
                    Call("update", p.id, Some(p), <<>>, BlankQuery, 0))

IDeleteImage ==
    /\ target = "image"
    /\ \E id \in ProductIds :
          ImageEnds(ImgDeleteImage(image_repo, id),
                    Call("delete", id, None, <<>>, BlankQuery, 0))

ISearchByEmbedding ==
    /\ target = "image"
    /\ \E q \in Probes, k \in 1..MaxK :
          \E r \in SearchByEmbedding(image_repo, q, k) :
              /\ result' = r
              /\ call' = Call("search", "", None, <<>>, q, k)
    /\ outcome' = "ok"
    /\ UNCHANGED <<vector_repo, bm25_repo, image_repo, caption_repo, disk, target, requests, pipeline, threads>>

Next ==
    \/ VAddProduct \/ VUpdateProduct \/ VDeleteProduct \/ VCreateIndex \/ VSearchSimilar
    \/ CAddCaption \/ CUpdateCaption \/ CDeleteCaption \/ CCreateIndex \/ CSearchByEmbedding
    \/ BAddProduct \/ BUpdateProduct \/ BDeleteProduct \/ BCreateIndex \/ BSearchKeywords
    \/ IAddImage \/ IUpdateImage \/ IDeleteImage \/ ISearchByEmbedding

Spec == Init /\ [][Next]_vars

(***************************************************************************)
(* A FAISS repository and its snapshot directory                           *)
(***************************************************************************)
\* the repository the behaviour drives, and its snapshot directory
TargetRepo == IF target = "vector" THEN vector_repo ELSE caption_repo

TargetSnapshot == IF target = "vector" THEN disk.vector ELSE disk.caption

\* the repository named by target is left as r.repo and the call ends as r.raised
TargetEnds(r, c) ==
    IF target = "vector" THEN VectorEnds(r, c) ELSE CaptionEnds(r, c)

PAdd == VAdd(SnapshotProducts) \/ CAdd(SnapshotProducts)

PUpdate == VUpdate(SnapshotProducts) \/ CUpdate(SnapshotProducts)

PDelete == VDelete \/ CDelete

\* save_index()
PSaveIndex ==
    /\ \E fail \in SaveFailures :
          LET r == SaveIndex(TargetRepo, TargetSnapshot, fail)
          IN /\ disk' = IF target = "vector" THEN [disk EXCEPT !.vector = r.snap]
                                             ELSE [disk EXCEPT !.caption = r.snap]
             /\ outcome' = r.raised
    /\ call' = Call("save_index", "", None, <<>>, BlankQuery, 0)
    /\ result' = <<>>
    /\ UNCHANGED <<vector_repo, bm25_repo, image_repo, caption_repo, target, requests, pipeline, threads>>

\* load_index() on the running instance
PLoadIndex ==
    /\ target \in {"vector", "caption"}
    /\ TargetEnds(LoadIndex(TargetRepo, TargetSnapshot),
               Call("load_index", "", None, <<>>, BlankQuery, 0))

\* a new repository instance, then load_index() on it
PLoadFresh ==
    /\ target \in {"vector", "caption"}
    /\ TargetEnds(LoadIndex(VectorRepositoryInit, TargetSnapshot),
               Call("load_fresh", "", None, <<>>, BlankQuery, 0))

NextPersist == PAdd \/ PUpdate \/ PDelete \/ PSaveIndex \/ PLoadIndex \/ PLoadFresh

SpecPersist == InitPersist /\ [][NextPersist]_vars

(***************************************************************************)
(* ProductService: every mutation fans out to the four repositories in     *)
(* turn and then saves the three FAISS repositories                        *)
(***************************************************************************)
\* the products handed to the service: one id, created with one title and image and
\* updated to another title and image
ServiceProductIds == {"p1"}

ServiceProducts == {p \in SnapshotProducts : p.id \in ServiceProductIds}

NewTitles == {"t2"}

NewImageUrls == {"i2"}

\* an argument left at its default None, and the image_url of a Product built without one
Absent == "None"

\* a blank string argument
BlankText == ""

\* Persist of the image repository: the snapshot holds the whole state
ImgSaveIndex(repo, snap) ==
    [index_file |-> "ok", index_data |-> IF repo.index = None THEN <<>> ELSE TheValue(repo.index),
     metadata_file |-> "ok", metadata |-> repo]

\* the repositories and snapshot directories a ProductService holds
ServiceState ==
    [vector_repo |-> vector_repo, bm25_repo |-> bm25_repo, image_repo |-> image_repo,
     caption_repo |-> caption_repo, disk |-> disk]

\* what the gateways do during one service call: whether the embedding API answers
\* (the vector and caption repositories share one EmbeddingService) and what the
\* captioning call does; the image embedding is computed locally
Gateways == [emb : BOOLEAN, cap : CaptionGateway]

\* the outcome of a service method: the service's state afterwards and the exception raised
SvcRet(s, raised) == [svc |-> s, raised |-> raised]

\* vector_repo.save_index(); caption_repo.save_index(); image_repo.save_index()
SaveAll(s) ==
    [s EXCEPT !.disk = [vector |-> SaveIndex(s.vector_repo, s.disk.vector, "none").snap,
                        caption |-> SaveIndex(s.caption_repo, s.disk.caption, "none").snap,
                        image |-> ImgSaveIndex(s.image_repo, s.disk.image)]]

\* ProductService.create_product(id, title, description, image); image names the url
\* the image is stored under
SvcCreateProduct(s, id, title, description, image, gw) ==
    IF title = BlankText THEN SvcRet(s, "ValueError")
    ELSE LET product == [id |-> id, title |-> title, description |-> description, image_url |-> image]
             v == VecAddProduct(s.vector_repo, product, gw.emb)
             s1 == [s EXCEPT !.vector_repo = v.repo]
             b == BM25AddProduct(s1.bm25_repo, product)
             s2 == [s1 EXCEPT !.bm25_repo = b.repo]
             i == ImgAddImage(s2.image_repo, product, TRUE)
             s3 == [s2 EXCEPT !.image_repo = i.repo]
             c == CapAddCaption(s3.caption_repo, product, gw.cap, gw.emb)
             s4 == [s3 EXCEPT !.caption_repo = c.repo]
         IN IF v.raised # "ok" THEN SvcRet(s1, v.raised)
            ELSE IF b.raised # "ok" THEN SvcRet(s2, b.raised)
            ELSE IF i.raised # "ok" THEN SvcRet(s3, i.raised)
            ELSE IF c.raised # "ok" THEN SvcRet(s4, c.raised)
            ELSE SvcRet(SaveAll(s4), "ok")

\* the Product update_product builds from the arguments given and the existing product
UpdatedProduct(existing, title, description, image) ==
    [id |-> existing.id,
     title |-> IF title # Absent THEN title ELSE existing.title,
     description |-> IF description # Absent THEN description ELSE existing.description,
     image_url |-> IF image # Absent THEN image ELSE existing.image_url]

\* ProductService.update_product(id, title=None, description=None, image=None): without
\* an image the local `url` is never assigned and ProductUpdate(..., image_url=url)
\* raises UnboundLocalError
SvcUpdateProduct(s, id, title, description, image, gw) ==
    IF id \notin Keys(s.vector_repo.products) THEN SvcRet(s, "ValueError")
    ELSE IF image = Absent THEN SvcRet(s, "UnboundLocalError")
    ELSE IF title = BlankText THEN SvcRet(s, "ValueError")
    ELSE LET product == UpdatedProduct(GetProduct(s.vector_repo.products, id), title, description, image)
             v == VecUpdateProduct(s.vector_repo, product, gw.emb)
             s1 == [s EXCEPT !.vector_repo = v.repo]
             b == BM25UpdateProduct(s1.bm25_repo, product)
             s2 == [s1 EXCEPT !.bm25_repo = b.repo]
             i == ImgUpdateImage(s2.image_repo, product, TRUE)
             s3 == [s2 EXCEPT !.image_repo = i.repo]
             c == CapUpdateCaption(s3.caption_repo, product)
             s4 == [s3 EXCEPT !.caption_repo = c.repo]
         IN IF v.raised # "ok" THEN SvcRet(s1, v.raised)
            ELSE IF b.raised # "ok" THEN SvcRet(s2, b.raised)
            ELSE IF i.raised # "ok" THEN SvcRet(s3, i.raised)
            ELSE IF c.raised # "ok" THEN SvcRet(s4, c.raised)
            ELSE SvcRet(SaveAll(s4), "ok")

\* ProductService.delete_product(id)
SvcDeleteProduct(s, id, gw) ==
    LET v == VecDeleteProduct(s.vector_repo, id, gw.emb)
        s1 == [s EXCEPT !.vector_repo = v.repo]
        b == BM25DeleteProduct(s1.bm25_repo, id)
        s2 == [s1 EXCEPT !.bm25_repo = b.repo]
        i == ImgDeleteImage(s2.image_repo, id)
        s3 == [s2 EXCEPT !.image_repo = i.repo]
        c == CapDeleteCaption(s3.caption_repo, id)
        s4 == [s3 EXCEPT !.caption_repo = c.repo]
    IN IF v.raised # "ok" THEN SvcRet(s1, v.raised)
       ELSE IF b.raised # "ok" THEN SvcRet(s2, b.raised)
       ELSE IF i.raised # "ok" THEN SvcRet(s3, i.raised)
       ELSE IF c.raised # "ok" THEN SvcRet(s4, c.raised)
       ELSE SvcRet(SaveAll(s4), "ok")

\* ProductService.batch_create_products(products_data): the vector and BM25
\* repositories only, and the vector snapshot only
SvcBatchCreateProducts(s, plist, gw) ==
    LET v == VecCreateIndex(s.vector_repo, plist, gw.emb)
        s1 == [s EXCEPT !.vector_repo = v.repo]
        b == BM25CreateIndex(s1.bm25_repo, plist)
        s2 == [s1 EXCEPT !.bm25_repo = b.repo]
    IN IF v.raised # "ok" THEN SvcRet(s1, v.raised)
       ELSE IF b.raised # "ok" THEN SvcRet(s2, b.raised)
       ELSE SvcRet([s2 EXCEPT !.disk.vector = SaveIndex(s2.vector_repo, s2.disk.vector, "none").snap],
                   "ok")

\* ProductService.clear_all_data()
SvcClearAllData(s) ==
    SvcRet(SaveAll([s EXCEPT !.vector_repo = VectorRepositoryInit,
                             !.image_repo = ImageRepositoryInit,
                             !.caption_repo = CaptionRepositoryInit,
                             !.bm25_repo = BM25ClearIndex(s.bm25_repo)]), "ok")

\* ProductService.rebuild_indexes(): the BM25 index is created again from the vector
\* repository's products and the three snapshots are saved
SvcRebuildIndexes(s) ==
    IF s.vector_repo.products = <<>> THEN SvcRet(s, "ok")
    ELSE SvcRet(SaveAll([s EXCEPT !.bm25_repo =
                            BM25CreateIndex(s.bm25_repo, s.vector_repo.products).repo]), "ok")

\* Load of the image repository: the state its snapshot holds, if there is one
ImgLoadIndex(repo, snap) == IF snap.metadata_file = "ok" THEN snap.metadata ELSE repo

\* ProductService.__init__: new repositories, load_index on each FAISS repository
\* (every exception is caught and logged), then the BM25 index created from the
\* vector repository's products if it has any
ProductServiceInit(snapshots) ==
    LET v == LoadIndex(VectorRepositoryInit, snapshots.vector).repo
    IN [vector_repo |-> v,
        bm25_repo |-> IF v.products # <<>> THEN BM25CreateIndex(BM25RepositoryInit, v.products).repo
                                           ELSE BM25RepositoryInit,
        image_repo |-> ImgLoadIndex(ImageRepositoryInit, snapshots.image),
        caption_repo |-> LoadIndex(CaptionRepositoryInit, snapshots.caption).repo,
        disk |-> snapshots]

\* the products_data lists of batch_create_products: dicts of id, title and description
BatchLists ==
    LET Rows == {[p EXCEPT !.image_url = Absent] : p \in ServiceProducts}
    IN {<<>>} \cup {<<p>> : p \in Rows}
              \cup {<<pq[1], pq[2]>> : pq \in {x \in Rows \X Rows : x[1].id # x[2].id}}

InitService == InitCommon /\ target = "service"

\* the service is left as r.svc and the call ends as r.raised
ServiceEnds(r, c) ==
    /\ Ntotal(r.svc.vector_repo.index) <= MaxNtotal
    /\ Ntotal(r.svc.image_repo.index) <= MaxNtotal
    /\ Ntotal(r.svc.caption_repo.index) <= MaxNtotal
    /\ vector_repo' = r.svc.vector_repo
    /\ bm25_repo' = r.svc.bm25_repo
    /\ image_repo' = r.svc.image_repo
    /\ caption_repo' = r.svc.caption_repo
    /\ disk' = r.svc.disk
    /\ outcome' = r.raised
    /\ call' = c
    /\ result' = <<>>
    /\ UNCHANGED <<target, requests, pipeline, threads>>

SCreateProduct ==
    /\ target = "service"
    /\ \E p \in ServiceProducts, blank \in BOOLEAN, gw \in Gateways :
          ServiceEnds(SvcCreateProduct(ServiceState, p.id, IF blank THEN BlankText ELSE p.title,
                                       p.description, p.image_url, gw),
                      Call("create_product", p.id, None, <<>>, BlankQuery, 0))

SUpdateProduct ==
    /\ target = "service"
    /\ \E id \in ServiceProductIds, title \in NewTitles \cup {Absent, BlankText},
          description \in Descriptions \cup {Absent}, image \in NewImageUrls \cup {Absent},
          emb \in BOOLEAN :
          ServiceEnds(SvcUpdateProduct(ServiceState, id, title, description, image,
                                       [emb |-> emb, cap |-> "text"]),
                      Call("update_product", id, None, <<>>, BlankQuery, 0))

SDeleteProduct ==
    /\ target = "service"
    /\ \E id \in ServiceProductIds, emb \in BOOLEAN :
          ServiceEnds(SvcDeleteProduct(ServiceState, id, [emb |-> emb, cap |-> "text"]),
                      Call("delete_product", id, None, <<>>, BlankQuery, 0))

SBatchCreateProducts ==
    /\ target = "service"
    /\ \E plist \in BatchLists, emb \in BOOLEAN :
          ServiceEnds(SvcBatchCreateProducts(ServiceState, plist, [emb |-> emb, cap |-> "text"]),
                      Call("batch_create_products", "", None, <<>>, BlankQuery, 0))

SClearAllData ==
    /\ target = "service"
    /\ ServiceEnds(SvcClearAllData(ServiceState),
                   Call("clear_all_data", "", None, <<>>, BlankQuery, 0))

NextService ==
    \/ SCreateProduct \/ SUpdateProduct \/ SDeleteProduct \/ SBatchCreateProducts \/ SClearAllData

SpecService == InitService /\ [][NextService]_vars

(***************************************************************************)
(* ProductService over its snapshot directories: maintenance, partial      *)
(* updates and restarts, the gateways answering                            *)
(***************************************************************************)
CatalogProductIds == {"p1"}

CatalogProducts == {p \in SnapshotProducts : p.id \in CatalogProductIds}

\* the arguments of one update_product call; Absent: left at the default None
UpdateArgs(id, title, description, image) ==
    [id |-> id, title |-> title, description |-> description, image_url |-> image]

\* the embedding API answers; the captioning call returns a caption or an empty one
CatalogGateways == [emb : {TRUE}, cap : {"text", "blank"}]

InitCatalog == InitCommon /\ target = "catalog"

KCreateProduct ==
    /\ target = "catalog"
    /\ \E p \in CatalogProducts, gw \in CatalogGateways :
          ServiceEnds(SvcCreateProduct(ServiceState, p.id, p.title, p.description, p.image_url, gw),
                      Call("create_product", p.id, None, <<>>, BlankQuery, 0))

KUpdateProduct ==
    /\ target = "catalog"
    /\ \E id \in CatalogProductIds, title \in NewTitles \cup {Absent},
          description \in Descriptions \cup {Absent}, image \in NewImageUrls \cup {Absent} :
          ServiceEnds(SvcUpdateProduct(ServiceState, id, title, description, image,
                                       [emb |-> TRUE, cap |-> "text"]),
                      Call("update_product", id, Some(UpdateArgs(id, title, description, image)),
                           <<>>, BlankQuery, 0))

KDeleteProduct ==
    /\ target = "catalog"
    /\ \E id \in CatalogProductIds :
          ServiceEnds(SvcDeleteProduct(ServiceState, id, [emb |-> TRUE, cap |-> "text"]),
                      Call("delete_product", id, None, <<>>, BlankQuery, 0))

KClearAllData ==
    /\ target = "catalog"
    /\ ServiceEnds(SvcClearAllData(ServiceState),
                   Call("clear_all_data", "", None, <<>>, BlankQuery, 0))

KRebuildIndexes ==
    /\ target = "catalog"
    /\ ServiceEnds(SvcRebuildIndexes(ServiceState),
                   Call("rebuild_indexes", "", None, <<>>, BlankQuery, 0))

\* the process is started again: a new ProductService over the snapshot directories
KRestart ==
    /\ target = "catalog"
    /\ ServiceEnds(SvcRet(ProductServiceInit(disk), "ok"),
                   Call("restart", "", None, <<>>, BlankQuery, 0))

NextCatalog ==
    \/ KCreateProduct \/ KUpdateProduct \/ KDeleteProduct \/ KClearAllData
    \/ KRebuildIndexes \/ KRestart

SpecCatalog == InitCatalog /\ [][NextCatalog]_vars

(***************************************************************************)
(* Scores: Python floats, kept as exact fractions                          *)
(***************************************************************************)
RECURSIVE GCD(_, _)
GCD(a, b) == IF b = 0 THEN a ELSE GCD(b, a % b)

\* the same number in lowest terms
Reduced(n, d) ==
    LET g == GCD(IF n < 0 THEN 0 - n ELSE n, d)
    IN IF g = 0 THEN Frac(n, d) ELSE Frac(n \div g, d \div g)

FracAdd(a, b) == Reduced(a.num * b.den + b.num * a.den, a.den * b.den)

FracMul(a, b) == Reduced(a.num * b.num, a.den * b.den)

FracSub(a, b) == Reduced(a.num * b.den - b.num * a.den, a.den * b.den)

\* a / b for b > 0
FracDiv(a, b) == Reduced(a.num * b.den, a.den * b.num)

\* a < b and a == b (denominators are positive)
FracLess(a, b) == a.num * b.den < b.num * a.den

FracEq(a, b) == a.num * b.den = b.num * a.den

\* dict.items() of a dict[str, float]: entries [id, score] in insertion order
ScoreOf(scores, id) == scores[CHOOSE i \in 1..Len(scores) : scores[i].id = id].score

ScoredIds(scores) == {scores[i].id : i \in 1..Len(scores)}

\* the ids of a result list, in order
RECURSIVE IdsOf(_)
IdsOf(results) ==
    IF results = <<>> THEN <<>> ELSE <<Head(results).id>> \o IdsOf(Tail(results))

\* sorted(items, key=score, reverse=True): descending and stable, so entries with
\* equal scores keep their order
RECURSIVE InsertDescending(_, _)
InsertDescending(sorted, e) ==
    IF sorted = <<>> THEN <<e>>
    ELSE IF FracLess(Head(sorted).score, e.score) THEN <<e>> \o sorted
    ELSE <<Head(sorted)>> \o InsertDescending(Tail(sorted), e)

RECURSIVE SortedDescending(_, _)
SortedDescending(sorted, items) ==
    IF items = <<>> THEN sorted
    ELSE SortedDescending(InsertDescending(sorted, Head(items)), Tail(items))

\* seq[:n]
Prefix(seq, n) == SubSeq(seq, 1, Min(n, Len(seq)))

(***************************************************************************)
(* RRFService                                                              *)
(***************************************************************************)
\* RRFService.__init__(default_k=60)
default_k == 60

\* rrf_scores[doc_id] += rrf_contribution, the entry starting at 0.0 when new
AddContribution(rrf_scores, id, contribution) ==
    IF id \in ScoredIds(rrf_scores)
    THEN [i \in 1..Len(rrf_scores) |->
            IF rrf_scores[i].id = id
            THEN [id |-> id, score |-> FracAdd(rrf_scores[i].score, contribution)]
            ELSE rrf_scores[i]]
    ELSE Append(rrf_scores, [id |-> id, score |-> contribution])

\* for rank, (doc_id, original_score) in enumerate(ranked_list, start=rank)
RECURSIVE AccumulateList(_, _, _, _)
AccumulateList(rrf_scores, ranked_list, rank, k) ==
    IF ranked_list = <<>> THEN rrf_scores
    ELSE AccumulateList(AddContribution(rrf_scores, Head(ranked_list).id, Frac(1, k + rank)),
                        Tail(ranked_list), rank + 1, k)

\* for list_idx, ranked_list in enumerate(ranked_lists)
RECURSIVE AccumulateLists(_, _, _, _)
AccumulateLists(rrf_scores, ranked_lists, first_rank, k) ==
    IF ranked_lists = <<>> THEN rrf_scores
    ELSE AccumulateLists(AccumulateList(rrf_scores, Head(ranked_lists), first_rank, k),
                         Tail(ranked_lists), first_rank, k)

\* reciprocal_rank_fusion with ranks counted from 0
reciprocal_rank_fusion_RankFromZero(ranked_lists, k) ==
    LET kk == IF k = None THEN default_k ELSE TheValue(k)
    IN IF ranked_lists = <<>> THEN <<>>
       ELSE SortedDescending(<<>>, AccumulateLists(<<>>, ranked_lists, 0, kk))

\* RRFService.reciprocal_rank_fusion(ranked_lists, k=None)
reciprocal_rank_fusion(ranked_lists, k) ==
    LET kk == IF k = None THEN default_k ELSE TheValue(k)
    IN IF ranked_lists = <<>> THEN <<>>
       ELSE SortedDescending(<<>>, AccumulateLists(<<>>, ranked_lists, 1, kk))

\* [(doc_id, 1.0) for doc_id in doc_ids]
RECURSIVE WithDummyScores(_)
WithDummyScores(doc_ids) ==
    IF doc_ids = <<>> THEN <<>>
    ELSE <<[id |-> Head(doc_ids), score |-> Frac(1, 1)]>> \o WithDummyScores(Tail(doc_ids))

\* RRFService.combine_search_results(bm25_results, vector_results, k, top_k)
combine_search_results(bm25_results, vector_results, k, top_k) ==
    Prefix(IdsOf(reciprocal_rank_fusion(<<WithDummyScores(bm25_results),
                                          WithDummyScores(vector_results)>>, k)), top_k)


(***************************************************************************)
(* SearchService: score combination                                        *)
(***************************************************************************)
\* min(scores) and max(scores) of a non-empty result list
MinScore(results) ==
    LET i == CHOOSE i \in 1..Len(results) :
                 \A j \in 1..Len(results) : ~FracLess(results[j].score, results[i].score)
    IN results[i].score

MaxScore(results) ==
    LET i == CHOOSE i \in 1..Len(results) :
                 \A j \in 1..Len(results) : ~FracLess(results[i].score, results[j].score)
    IN results[i].score

\* normalized[product_id] = value: a later entry for the same id replaces the value
\* and keeps the key's place
DictSet(dict, id, value) ==
    IF id \in ScoredIds(dict)
    THEN [i \in 1..Len(dict) |-> IF dict[i].id = id THEN [id |-> id, score |-> value] ELSE dict[i]]
    ELSE Append(dict, [id |-> id, score |-> value])

RECURSIVE NormalizeInto(_, _, _, _)
NormalizeInto(normalized, results, min_score, max_score) ==
    IF results = <<>> THEN normalized
    ELSE NormalizeInto(
            DictSet(normalized, Head(results).id,
                    IF FracEq(max_score, min_score) THEN Frac(1, 1)
                    ELSE FracDiv(FracSub(Head(results).score, min_score),
                                 FracSub(max_score, min_score))),
            Tail(results), min_score, max_score)

\* SearchService._normalize_scores(results)
normalize_scores(results) ==
    IF results = <<>> THEN <<>>
    ELSE NormalizeInto(<<>>, results, MinScore(results), MaxScore(results))

\* combined_scores[product_id] = combined_scores.get(product_id, 0) + score * weight
RECURSIVE AddWeighted(_, _, _)
AddWeighted(combined_scores, scores, weight) ==
    IF scores = <<>> THEN combined_scores
    ELSE LET id == Head(scores).id
             old == IF id \in ScoredIds(combined_scores)
                    THEN ScoreOf(combined_scores, id) ELSE Frac(0, 1)
         IN AddWeighted(DictSet(combined_scores, id,
                                FracAdd(old, FracMul(Head(scores).score, weight))),
                        Tail(scores), weight)

\* combine_scores without the normalization of each result list
combine_scores_RawScores(bm25_results, vector_results, weights) ==
    SortedDescending(<<>>,
        AddWeighted(AddWeighted(<<>>, bm25_results, weights[1]),
                    vector_results, weights[2]))

\* SearchService.combine_scores(bm25_results, vector_results, weights)
combine_scores(bm25_results, vector_results, weights) ==
    SortedDescending(<<>>,
        AddWeighted(AddWeighted(<<>>, normalize_scores(bm25_results), weights[1]),
                    normalize_scores(vector_results), weights[2]))

(***************************************************************************)
(* SearchService over the four repositories                                *)
(***************************************************************************)
\* settings.DEFAULT_BM25_WEIGHT and settings.DEFAULT_VECTOR_WEIGHT
DEFAULT_BM25_WEIGHT == Frac(4, 10)

DEFAULT_VECTOR_WEIGHT == Frac(6, 10)

\* one query made to a repository: which repository, and the k asked for
Request(repo, k) == [repo |-> repo, k |-> k]

\* what a search method may end with: its return value, the exception raised and the
\* repository queries made on the way
Ended(value, raised, reqs) == [result |-> value, raised |-> raised, requests |-> reqs]

\* the two searches of hybrid_search, then combine_scores and the cut to top_k
HybridResults(s, query, weights, search_k, top_k, embOk) ==
    UNION {
        IF b.raised # "ok" THEN {Ended(<<>>, b.raised, <<Request("bm25", search_k)>>)}
        ELSE {IF v.raised # "ok"
              THEN Ended(<<>>, v.raised, <<Request("bm25", search_k), Request("vector", search_k)>>)
              ELSE Ended(Prefix(IdsOf(combine_scores(b.result, v.result, weights)), top_k), "ok",
                         <<Request("bm25", search_k), Request("vector", search_k)>>) :
              v \in VecSearchSimilar(s.vector_repo, query, search_k, embOk)} :
        b \in BM25SearchKeywords(s.bm25_repo, query, search_k)}

\* hybrid_search querying the repositories before it looks at the weights
hybrid_search_WeightsUnchecked(s, query, bm25_weight, vector_weight, top_k, embOk) ==
    IF query = BlankQuery THEN {Ended(<<>>, "ValueError", <<>>)}
    ELSE LET bw == IF bm25_weight = None THEN DEFAULT_BM25_WEIGHT ELSE TheValue(bm25_weight)
             vw == IF vector_weight = None THEN DEFAULT_VECTOR_WEIGHT ELSE TheValue(vector_weight)
             tk == IF top_k = None THEN DEFAULT_TOP_K ELSE TheValue(top_k)
             total_weight == FracAdd(bw, vw)
         IN IF FracEq(total_weight, Frac(0, 1))
            THEN {Ended(<<>>, "ValueError",
                        <<Request("bm25", Min(tk * 2, 50)), Request("vector", Min(tk * 2, 50))>>)}
            ELSE HybridResults(s, query,
                               <<FracDiv(bw, total_weight), FracDiv(vw, total_weight)>>,
                               Min(tk * 2, 50), tk, embOk)

\* SearchService.hybrid_search(query, bm25_weight, vector_weight, top_k)
hybrid_search(s, query, bm25_weight, vector_weight, top_k, embOk) ==
    IF query = BlankQuery THEN {Ended(<<>>, "ValueError", <<>>)}
    ELSE LET bw == IF bm25_weight = None THEN DEFAULT_BM25_WEIGHT ELSE TheValue(bm25_weight)
             vw == IF vector_weight = None THEN DEFAULT_VECTOR_WEIGHT ELSE TheValue(vector_weight)
             tk == IF top_k = None THEN DEFAULT_TOP_K ELSE TheValue(top_k)
             total_weight == FracAdd(bw, vw)
         IN IF FracLess(bw, Frac(0, 1)) \/ FracLess(vw, Frac(0, 1))
            THEN {Ended(<<>>, "ValueError", <<>>)}
            ELSE IF FracEq(total_weight, Frac(0, 1))
            THEN {Ended(<<>>, "ValueError", <<>>)}
            ELSE HybridResults(s, query,
                               <<FracDiv(bw, total_weight), FracDiv(vw, total_weight)>>,
                               Min(tk * 2, 50), tk, embOk)

\* SearchService.keyword_search(query, top_k)
keyword_search(s, query, top_k) ==
    IF query = BlankQuery THEN {Ended(<<>>, "ValueError", <<>>)}
    ELSE LET tk == IF top_k = None THEN DEFAULT_TOP_K ELSE TheValue(top_k)
         IN {Ended(IdsOf(b.result), b.raised, <<Request("bm25", tk)>>) :
                b \in BM25SearchKeywords(s.bm25_repo, query, tk)}

\* SearchService.semantic_search(query, top_k)
semantic_search(s, query, top_k, embOk) ==
    IF query = BlankQuery THEN {Ended(<<>>, "ValueError", <<>>)}
    ELSE LET tk == IF top_k = None THEN DEFAULT_TOP_K ELSE TheValue(top_k)
         IN {Ended(IdsOf(v.result), v.raised, <<Request("vector", tk)>>) :
                v \in VecSearchSimilar(s.vector_repo, query, tk, embOk)}

Max(a, b) == IF a > b THEN a ELSE b

\* rrf_search from the point where k and top_k have their values: keyword_search and
\* semantic_search with the retrieval limit, then rrf_service.combine_search_results
RrfResults(s, query, k, retrieval_limit, top_k, embOk) ==
    UNION {
        IF b.raised # "ok" THEN {Ended(<<>>, b.raised, b.requests)}
        ELSE {IF v.raised # "ok" THEN Ended(<<>>, v.raised, b.requests \o v.requests)
              ELSE Ended(combine_search_results(b.result, v.result, Some(k), top_k), "ok",
                         b.requests \o v.requests \o <<Request("rrf", k)>>) :
              v \in semantic_search(s, query, Some(retrieval_limit), embOk)} :
        b \in keyword_search(s, query, Some(retrieval_limit))}

\* rrf_search leaving k = None to the fusion service, whose default is 60
rrf_search_FusionDefault(s, query, k, top_k, embOk) ==
    IF query = BlankQuery THEN {Ended(<<>>, "ValueError", <<>>)}
    ELSE LET kk == IF k = None THEN default_k ELSE TheValue(k)
             tk == IF top_k = None THEN DEFAULT_TOP_K ELSE TheValue(top_k)
         IN RrfResults(s, query, kk, Max(tk * 5, 100), tk, embOk)

\* SearchService.rrf_search(query, k, top_k)
rrf_search(s, query, k, top_k, embOk) ==
    IF query = BlankQuery THEN {Ended(<<>>, "ValueError", <<>>)}
    ELSE LET kk == IF k = None THEN 20 ELSE TheValue(k)
             tk == IF top_k = None THEN DEFAULT_TOP_K ELSE TheValue(top_k)
         IN RrfResults(s, query, kk, Max(tk * 5, 100), tk, embOk)

\* ProductService.search_products(query, search_type, bm25_weight, vector_weight, top_k);
\* for 'rrf' the bm25_weight argument carries the caller's RRF k, as a number
search_products(s, query, search_type, bm25_weight, vector_weight, top_k, embOk) ==
    IF query = BlankQuery THEN {Ended(<<>>, "ValueError", <<>>)}
    ELSE IF search_type \notin {"hybrid", "semantic", "keyword", "rrf"}
    THEN {Ended(<<>>, "ValueError", <<>>)}
    ELSE LET tk == IF top_k = None THEN DEFAULT_TOP_K ELSE TheValue(top_k)
         IN CASE search_type = "hybrid" ->
                    hybrid_search(s, query, bm25_weight, vector_weight, Some(tk), embOk)
              [] search_type = "semantic" -> semantic_search(s, query, Some(tk), embOk)
              [] search_type = "keyword" -> keyword_search(s, query, Some(tk))
              [] search_type = "rrf" ->
                    LET rrf_k == IF bm25_weight # None /\ TheValue(bm25_weight) > 1
                                 THEN TheValue(bm25_weight) ELSE 60
                    IN rrf_search(s, query, Some(rrf_k), Some(tk), embOk)

(***************************************************************************)
(* SearchService: the searches by image                                    *)
(***************************************************************************)
\* the query_image argument: nothing (None or ""), a PIL image, or a string
NoImage == [kind |-> "none", image |-> "", text |-> BlankQuery]

PilImage(image) == [kind |-> "pil", image |-> image, text |-> BlankQuery]

StrImage(text) == [kind |-> "str", image |-> "", text |-> text]

\* ImageService.generar_descripcion_imagen(image): the caption returned, or the
\* exception raised (cap as for add_caption)
GenerarDescripcionImagen(image, cap) ==
    IF cap = "raise" THEN [caption |-> BlankQuery, raised |-> "UnboundLocalError"]
    ELSE IF cap = "blank" THEN [caption |-> BlankQuery, raised |-> "ok"]
    ELSE [caption |-> CaptionOf(image), raised |-> "ok"]

\* SearchService.search_by_image_A(query_image, k)
search_by_image_A(s, query_image, k) ==
    IF query_image.kind = "none" THEN {Ended(<<>>, "ValueError", <<>>)}
    ELSE IF query_image.kind = "str" THEN {Ended(<<>>, "FileNotFoundError", <<>>)}
    ELSE LET kk == IF k = None THEN 10 ELSE TheValue(k)
         IN {Ended(r, "ok", <<Request("image", kk)>>) :
                r \in SearchByEmbedding(s.image_repo, EmbedImage(query_image.image), kk)}

\* search_by_caption_A answering a blank caption with no results
search_by_caption_A_BlankIsEmpty(s, query_image, k, gw) ==
    IF query_image.kind = "none" THEN {Ended(<<>>, "ValueError", <<>>)}
    ELSE LET kk == IF k = None THEN 10 ELSE TheValue(k)
             g == IF query_image.kind = "pil"
                  THEN GenerarDescripcionImagen(query_image.image, gw.cap)
                  ELSE [caption |-> query_image.text, raised |-> "ok"]
         IN IF g.raised # "ok" \/ g.caption = BlankQuery THEN {Ended(<<>>, "ok", <<>>)}
            ELSE IF ~gw.emb THEN {Ended(<<>>, "Exception", <<>>)}
            ELSE IF s.caption_repo.index = None \/ Ntotal(s.caption_repo.index) = 0
            THEN {Ended(<<>>, "ok", <<>>)}
            ELSE {Ended(r, "ok", <<Request("caption", kk)>>) :
                    r \in SearchByEmbedding(s.caption_repo, Embed(g.caption), kk)}

\* SearchService.search_by_caption_A(query_image, k)
search_by_caption_A(s, query_image, k, gw) ==
    IF query_image.kind = "none" THEN {Ended(<<>>, "ValueError", <<>>)}
    ELSE LET kk == IF k = None THEN 10 ELSE TheValue(k)
             g == IF query_image.kind = "pil"
                  THEN GenerarDescripcionImagen(query_image.image, gw.cap)
                  ELSE [caption |-> query_image.text, raised |-> "ok"]
         IN IF g.raised # "ok" THEN {Ended(<<>>, g.raised, <<>>)}
            ELSE IF g.caption = BlankQuery THEN {Ended(<<>>, "RuntimeError", <<>>)}
            ELSE IF ~gw.emb THEN {Ended(<<>>, "Exception", <<>>)}
            ELSE IF s.caption_repo.index = None \/ Ntotal(s.caption_repo.index) = 0
            THEN {Ended(<<>>, "ok", <<>>)}
            ELSE {Ended(r, "ok", <<Request("caption", kk)>>) :
                    r \in SearchByEmbedding(s.caption_repo, Embed(g.caption), kk)}

\* SearchService.search_by_description_A(image, k): the parameter is named image and
\* the body reads query_image, a name bound nowhere: NameError
search_by_description_A(s, image, k, gw) ==
    IF image.kind = "none" THEN {Ended(<<>>, "ValueError", <<>>)}
    ELSE {Ended(<<>>, "NameError", <<>>)}

\* weights are given in tenths: <<4, 2, 4>> is 0.4, 0.2, 0.4
Tenths(w) == Frac(w, 10)

\* the triples of the weights drawn whose float sum is not the sum of the tenths:
\* 0.7 + 0.2 + 0.1 is 0.9999999999999999
InexactSums == {<<7, 2, 1>>}

\* total == 1 on floats
SumsToOneExactly(w) == w[1] + w[2] + w[3] = 10 /\ w \notin InexactSums

\* abs(total - 1.0) <= tol, tol = 1e-6: rounding moves a sum by far less than tol,
\* and sums of tenths other than 1 are at least 0.1 away
SumsToOneWithinTol(w) == w[1] + w[2] + w[3] = 10

\* max(sim.get(pid, 0.0), float(sim)) over the entries of pid; 0.0 when there is none
BestSimilarity(results, pid) ==
    LET sims == {results[i].score : i \in {j \in 1..Len(results) : results[j].id = pid}}
    IN IF sims = {} THEN Frac(0, 1)
       ELSE CHOOSE x \in sims : \A y \in sims : ~FracLess(x, y)

\* the scoring of the two hybrid image searches: the entries (pid, s_i, s_c, s_d, score)
\* with score >= umbral, sorted by descending score, cut to k. all_ids is a set, so
\* entries with equal scores may come in any order
WeightedResults(images, captions, descriptions, w, umbral, k) ==
    LET all_ids == ScoredIds(images) \cup ScoredIds(captions) \cup ScoredIds(descriptions)
        Entry(pid) ==
            LET s_i == BestSimilarity(images, pid)
                s_c == BestSimilarity(captions, pid)
                s_d == BestSimilarity(descriptions, pid)
            IN [id |-> pid, s_i |-> s_i, s_c |-> s_c, s_d |-> s_d,
                score |-> FracAdd(FracAdd(FracMul(s_i, Tenths(w[1])), FracMul(s_c, Tenths(w[2]))),
                                  FracMul(s_d, Tenths(w[3])))]
        combined == {e \in {Entry(pid) : pid \in all_ids} : ~FracLess(e.score, umbral)}
        n == Cardinality(combined)
    IN {Prefix(sorted, k) :
           sorted \in {r \in [1..n -> combined] :
                          /\ \A i, j \in 1..n : i # j => r[i] # r[j]
                          /\ \A i \in 1..(n - 1) : ~FracLess(r[i].score, r[i + 1].score)}}

\* the three searches of hydrid_search_image_A and its scoring
HybridImageResults(s, query_image, caption, kk, w, umbral, gw) ==
    UNION {
        IF i.raised # "ok" THEN {Ended(<<>>, i.raised, i.requests)}
        ELSE UNION {
            IF c.raised # "ok" THEN {Ended(<<>>, c.raised, i.requests \o c.requests)}
            ELSE UNION {
                IF d.raised # "ok"
                THEN {Ended(<<>>, d.raised, i.requests \o c.requests \o d.requests)}
                ELSE {Ended(r, "ok", i.requests \o c.requests \o d.requests) :
                        r \in WeightedResults(i.result, c.result, d.result, w, umbral, kk)} :
                d \in search_by_description_A(s, caption, Some(kk * 2), gw)} :
            c \in search_by_caption_A(s, caption, Some(kk * 2), gw)} :
        i \in search_by_image_A(s, query_image, Some(kk * 2))}

\* SearchService.hydrid_search_image_A(query_image, k, peso_imagen, peso_caption,
\* peso_description, umbral)
hydrid_search_image_A(s, query_image, k, w, umbral, gw) ==
    IF query_image.kind = "none" THEN {Ended(<<>>, "ValueError", <<>>)}
    ELSE LET kk == IF k = None THEN 10 ELSE TheValue(k)
         IN IF ~(w[1] >= 0 /\ w[2] >= 0 /\ w[3] >= 0)
            THEN {Ended(<<>>, "ValueError: Los pesos deben ser no negativos", <<>>)}
            ELSE IF ~SumsToOneExactly(w)
            THEN {Ended(<<>>, "ValueError: Los pesos deben sumar 1", <<>>)}
            ELSE LET g == GenerarDescripcionImagen(query_image.image, gw.cap)
                     caption == IF g.caption = BlankQuery THEN NoImage ELSE StrImage(g.caption)
                 IN IF g.raised # "ok" THEN {Ended(<<>>, g.raised, <<>>)}
                    ELSE HybridImageResults(s, query_image, caption, kk, w, umbral, gw)

\* the three searches of hybrid_search_image_description_A and its scoring
HybridImageTextResults(s, query_image, query, kk, w, umbral, gw) ==
    UNION {
        IF i.raised # "ok" THEN {Ended(<<>>, i.raised, i.requests)}
        ELSE UNION {
            IF c.raised # "ok" THEN {Ended(<<>>, c.raised, i.requests \o c.requests)}
            ELSE UNION {
                IF d.raised # "ok"
                THEN {Ended(<<>>, d.raised,
                            i.requests \o c.requests \o <<Request("vector", kk * 2)>>)}
                ELSE {Ended(r, "ok", i.requests \o c.requests \o <<Request("vector", kk * 2)>>) :
                        r \in WeightedResults(i.result, c.result, d.result, w, umbral, kk)} :
                d \in VecSearchSimilar(s.vector_repo, query, kk * 2, gw.emb)} :
            c \in search_by_caption_A(s, query_image, Some(kk * 2), gw)} :
        i \in search_by_image_A(s, query_image, Some(kk * 2))}

\* SearchService.hybrid_search_image_description_A(query_image, query, k, peso_imagen,
\* peso_caption, peso_description, umbral, tol)
hybrid_search_image_description_A(s, query_image, query, k, w, umbral, gw) ==
    IF query_image.kind = "none" THEN {Ended(<<>>, "ValueError", <<>>)}
    ELSE LET kk == IF k = None THEN 10 ELSE TheValue(k)
         IN IF ~(w[1] >= 0 /\ w[2] >= 0 /\ w[3] >= 0)
            THEN {Ended(<<>>, "ValueError: Los pesos deben ser no negativos", <<>>)}
            ELSE IF ~SumsToOneWithinTol(w)
            THEN {Ended(<<>>, "ValueError: Los pesos deben sumar 1", <<>>)}
            ELSE HybridImageTextResults(s, query_image, query, kk, w, umbral, gw)

(***************************************************************************)
(* SearchService driven over a small catalog                               *)
(***************************************************************************)
\* top_k of the text searches; None leaves the default
TopKs == {None, Some(1), Some(2), Some(25), Some(26)}

\* bm25_weight and vector_weight of hybrid_search
HybridWeights == {None, Some(Frac(0 - 1, 1)), Some(Frac(0, 1)), Some(Frac(1, 1)), Some(Frac(3, 1))}

\* the RRF k a caller hands over
RrfKArgs == {None, Some(1), Some(30)}

\* k of the searches by image
ImageKs == {None, Some(1), Some(2)}

\* peso_imagen, peso_caption, peso_description in tenths
WeightTriples == {<<4, 2, 4>>, <<4, 2, 3>>, <<7, 2, 1>>, <<4, 2, 2>>, <<0 - 2, 6, 6>>}

Umbrales == {Frac(0, 1), Frac(1, 4)}

QueryImages == {NoImage} \cup {PilImage(i) : i \in ImageUrls}

\* what search_by_caption_A may be handed: an image, or a string taken as the caption
CaptionQueries ==
    QueryImages \cup {StrImage(CaptionOf(i)) : i \in ImageUrls} \cup {StrImage(BlankQuery)}

\* the gateways while the catalog is filled: the embedding API answers, the captioning
\* call gives a caption or a blank one
SeedGateways == [emb : {TRUE}, cap : {"text", "blank"}]

SearchCall(op, query_image, query, k, weights, umbral, gw) ==
    [op |-> op, query_image |-> query_image, query |-> query, k |-> k, weights |-> weights,
     umbral |-> umbral, gw |-> gw]

InitSearch == InitCommon /\ target = "search"

\* no search has been made yet. The searches leave the repositories as they are, so a
\* behaviour fills the catalog and then makes one search
Idle == call.op \in {"init", "create_product"}

SSeedProduct ==
    /\ target = "search"
    /\ Idle
    /\ \E p \in SnapshotProducts, gw \in SeedGateways :
          ServiceEnds(SvcCreateProduct(ServiceState, p.id, p.title, p.description, p.image_url, gw),
                      Call("create_product", p.id, None, <<>>, BlankQuery, 0))

\* the search ends as e
SearchEnds(e, c) ==
    /\ result' = e.result
    /\ outcome' = e.raised
    /\ requests' = e.requests
    /\ call' = c
    /\ UNCHANGED <<vector_repo, bm25_repo, image_repo, caption_repo, disk, target, pipeline, threads>>

SHybridSearch ==
    /\ target = "search"
    /\ Idle
    /\ \E query \in Queries, bw \in HybridWeights, vw \in HybridWeights, top_k \in TopKs,
          emb \in BOOLEAN :
          \E e \in hybrid_search(ServiceState, query, bw, vw, top_k, emb) :
              SearchEnds(e, SearchCall("hybrid_search", NoImage, query, top_k, <<bw, vw>>,
                                       Frac(0, 1), [emb |-> emb, cap |-> "text"]))

SRrfSearch ==
    /\ target = "search"
    /\ Idle
    /\ \E query \in Queries, k \in RrfKArgs, top_k \in TopKs, emb \in BOOLEAN :
          \E e \in rrf_search(ServiceState, query, k, top_k, emb) :
              SearchEnds(e, SearchCall("rrf_search", NoImage, query, top_k, <<k>>,
                                       Frac(0, 1), [emb |-> emb, cap |-> "text"]))

\* search_products(query, 'rrf', bm25_weight=k, top_k=top_k)
SSearchProductsRrf ==
    /\ target = "search"
    /\ Idle
    /\ \E query \in Queries, k \in RrfKArgs, top_k \in TopKs, emb \in BOOLEAN :
          \E e \in search_products(ServiceState, query, "rrf", k, None, top_k, emb) :
              SearchEnds(e, SearchCall("search_products", NoImage, query, top_k, <<k>>,
                                       Frac(0, 1), [emb |-> emb, cap |-> "text"]))

SSearchByCaption ==
    /\ target = "search"
    /\ Idle
    /\ \E q \in CaptionQueries, k \in ImageKs, gw \in Gateways :
          \E e \in search_by_caption_A(ServiceState, q, k, gw) :
              SearchEnds(e, SearchCall("search_by_caption_A", q, BlankQuery, k, <<>>,
                                       Frac(0, 1), gw))

SSearchByDescription ==
    /\ target = "search"
    /\ Idle
    /\ \E q \in CaptionQueries, k \in ImageKs, gw \in Gateways :
          \E e \in search_by_description_A(ServiceState, q, k, gw) :
              SearchEnds(e, SearchCall("search_by_description_A", q, BlankQuery, k, <<>>,
                                       Frac(0, 1), gw))

SHybridSearchImage ==
    /\ target = "search"
    /\ Idle
    /\ \E q \in QueryImages, k \in ImageKs, w \in WeightTriples, umbral \in Umbrales,
          gw \in Gateways :
          \E e \in hydrid_search_image_A(ServiceState, q, k, w, umbral, gw) :
              SearchEnds(e, SearchCall("hydrid_search_image_A", q, BlankQuery, k, w, umbral, gw))

SHybridSearchImageDescription ==
    /\ target = "search"
    /\ Idle
    /\ \E q \in QueryImages, query \in Queries, k \in ImageKs, w \in WeightTriples,
          umbral \in Umbrales, gw \in Gateways :
          \E e \in hybrid_search_image_description_A(ServiceState, q, query, k, w, umbral, gw) :
              SearchEnds(e, SearchCall("hybrid_search_image_description_A", q, query, k, w,
                                       umbral, gw))

NextSearch ==
    \/ SSeedProduct \/ SHybridSearch \/ SRrfSearch \/ SSearchProductsRrf
    \/ SSearchByCaption \/ SSearchByDescription
    \/ SHybridSearchImage \/ SHybridSearchImageDescription

SpecSearch == InitSearch /\ [][NextSearch]_vars

(***************************************************************************)
(* MultiStageService                                                       *)
(***************************************************************************)
SearchMethod == {"bm25", "vector", "hybrid", "rrf"}

\* SearchStage(method, limit) after __post_init__: a hybrid stage gets the default
\* weights, an rrf stage rrf_k = 60
SearchStage(method, limit) ==
    [method |-> method, limit |-> limit,
     bm25_weight |-> IF method = "hybrid" THEN Some(Frac(4, 10)) ELSE None,
     vector_weight |-> IF method = "hybrid" THEN Some(Frac(6, 10)) ELSE None,
     rrf_k |-> IF method = "rrf" THEN Some(60) ELSE None]

MultiStageConfig(stages, final_limit) == [stages |-> stages, final_limit |-> final_limit]

\* what a stage ends with: its candidates, the exception raised, the primitive calls made
StageEnded(candidates, raised, reqs) ==
    [candidates |-> candidates, raised |-> raised, requests |-> reqs]

\* the primitives search_with_strategy hands over, with the calls they make logged
\* under the primitive's name
PrimitiveCall(name, top_k, ended) ==
    {StageEnded(e.result, e.raised, <<Request(name, top_k)>>) : e \in ended}

bm25_search(s, query, top_k) ==
    PrimitiveCall("bm25_search", top_k, keyword_search(s, query, Some(top_k)))

vector_search(s, query, top_k, embOk) ==
    PrimitiveCall("vector_search", top_k, semantic_search(s, query, Some(top_k), embOk))

\* _execute_bm25_stage searching again whatever the previous stage gave
execute_bm25_stage_SearchesAgain(s, query, stage, search_methods, previous_candidates, embOk) ==
    IF "bm25_search" \notin search_methods THEN {StageEnded(<<>>, "ValueError", <<>>)}
    ELSE bm25_search(s, query, stage.limit)

\* MultiStageService._execute_bm25_stage
execute_bm25_stage(s, query, stage, search_methods, previous_candidates, embOk) ==
    IF "bm25_search" \notin search_methods THEN {StageEnded(<<>>, "ValueError", <<>>)}
    ELSE IF previous_candidates # None
    THEN {StageEnded(Prefix(TheValue(previous_candidates), stage.limit), "ok", <<>>)}
    ELSE bm25_search(s, query, stage.limit)

\* MultiStageService._execute_vector_stage
execute_vector_stage(s, query, stage, search_methods, previous_candidates, embOk) ==
    IF "vector_search" \notin search_methods THEN {StageEnded(<<>>, "ValueError", <<>>)}
    ELSE IF previous_candidates # None
    THEN {StageEnded(Prefix(TheValue(previous_candidates), stage.limit), "ok", <<>>)}
    ELSE vector_search(s, query, stage.limit, embOk)

\* MultiStageService._execute_hybrid_stage
execute_hybrid_stage(s, query, stage, search_methods, previous_candidates, embOk) ==
    IF "hybrid_search" \notin search_methods THEN {StageEnded(<<>>, "ValueError", <<>>)}
    ELSE LET bm25_weight == IF stage.bm25_weight = None THEN Some(Frac(4, 10)) ELSE stage.bm25_weight
             vector_weight == IF stage.vector_weight = None THEN Some(Frac(6, 10)) ELSE stage.vector_weight
         IN IF previous_candidates # None
            THEN {StageEnded(Prefix(TheValue(previous_candidates), stage.limit), "ok", <<>>)}
            ELSE PrimitiveCall("hybrid_search", stage.limit,
                               hybrid_search(s, query, bm25_weight, vector_weight,
                                             Some(stage.limit), embOk))

\* MultiStageService._execute_rrf_stage
execute_rrf_stage(s, query, stage, search_methods, previous_candidates, embOk) ==
    IF "bm25_search" \notin search_methods \/ "vector_search" \notin search_methods
    THEN {StageEnded(<<>>, "ValueError", <<>>)}
    ELSE LET rrf_k == IF stage.rrf_k = None THEN 20 ELSE TheValue(stage.rrf_k)
             retrieval_limit == Max(stage.limit * 3, 50)
         IN IF previous_candidates # None
            THEN {StageEnded(Prefix(TheValue(previous_candidates), stage.limit), "ok", <<>>)}
            ELSE UNION {
                IF b.raised # "ok" THEN {b}
                ELSE {IF v.raised # "ok"
                      THEN StageEnded(<<>>, v.raised, b.requests \o v.requests)
                      ELSE StageEnded(combine_search_results(b.candidates, v.candidates,
                                                             Some(rrf_k), stage.limit),
                                      "ok", b.requests \o v.requests) :
                      v \in vector_search(s, query, retrieval_limit, embOk)} :
                b \in bm25_search(s, query, retrieval_limit)}

\* MultiStageService._execute_stage
execute_stage(s, query, stage, search_methods, previous_candidates, embOk) ==
    CASE stage.method = "bm25" ->
            execute_bm25_stage(s, query, stage, search_methods, previous_candidates, embOk)
      [] stage.method = "vector" ->
            execute_vector_stage(s, query, stage, search_methods, previous_candidates, embOk)
      [] stage.method = "hybrid" ->
            execute_hybrid_stage(s, query, stage, search_methods, previous_candidates, embOk)
      [] stage.method = "rrf" ->
            execute_rrf_stage(s, query, stage, search_methods, previous_candidates, embOk)
      [] OTHER -> {StageEnded(<<>>, "ValueError", <<>>)}

\* execute_multi_stage before its loop: current_candidates = None, stage_results = [].
\* outputs and calls keep, per executed stage, its candidates and the number of
\* primitive calls made so far
StartedPipeline(query, config, search_methods) ==
    [status |-> "running", query |-> query, config |-> config, search_methods |-> search_methods,
     stage_idx |-> 0, current_candidates |-> None, stage_results |-> <<>>,
     outputs |-> <<>>, calls |-> <<>>, attempts |-> <<>>]

\* one iteration of the loop, carrying on with the next stage when the stage raised
AfterStage_CarriesOn(p, r, ncalls) ==
    LET stage == p.config.stages[p.stage_idx + 1]
    IN IF r.raised # "ok"
       THEN [p EXCEPT !.stage_idx = @ + 1, !.attempts = Append(@, p.stage_idx + 1)]
       ELSE [p EXCEPT !.stage_idx = @ + 1,
                      !.current_candidates = Some(r.candidates),
                      !.stage_results = Append(@, [stage |-> p.stage_idx + 1,
                                                   method |-> stage.method,
                                                   limit |-> stage.limit,
                                                   results_count |-> Len(r.candidates)]),
                      !.outputs = Append(@, r.candidates),
                      !.calls = Append(@, ncalls),
                      !.attempts = Append(@, p.stage_idx + 1)]

\* one iteration of the loop of execute_multi_stage, the stage having ended as r: an
\* exception leaves the loop and the method; otherwise the candidates are replaced and
\* the stage's record appended
AfterStage(p, r, ncalls) ==
    LET stage == p.config.stages[p.stage_idx + 1]
    IN IF r.raised # "ok"
       THEN [p EXCEPT !.status = "failed", !.attempts = Append(@, p.stage_idx + 1)]
       ELSE [p EXCEPT !.stage_idx = @ + 1,
                      !.current_candidates = Some(r.candidates),
                      !.stage_results = Append(@, [stage |-> p.stage_idx + 1,
                                                   method |-> stage.method,
                                                   limit |-> stage.limit,
                                                   results_count |-> Len(r.candidates)]),
                      !.outputs = Append(@, r.candidates),
                      !.calls = Append(@, ncalls),
                      !.attempts = Append(@, p.stage_idx + 1)]

\* the dict execute_multi_stage returns
FinalResult(p) ==
    LET final_results == IF p.current_candidates = None THEN <<>>
                         ELSE Prefix(TheValue(p.current_candidates), p.config.final_limit)
    IN [results |-> final_results, total_results |-> Len(final_results),
        stage_details |-> p.stage_results, final_limit |-> p.config.final_limit]

(***************************************************************************)
(* MultiStageService driven over a small catalog                           *)
(***************************************************************************)
\* the most stages of a pipeline
MaxStages == 2

\* the largest stage limit and final limit
MaxLimit == 2

StageLists ==
    UNION {[1..n -> {SearchStage(m, l) : m \in SearchMethod, l \in 1..MaxLimit}] : n \in 1..MaxStages}

Configs == {MultiStageConfig(stages, final_limit) : stages \in StageLists, final_limit \in 1..MaxLimit}

\* the search_methods dict: the one search_with_strategy builds, and two lacking entries
MethodSets ==
    {{"bm25_search", "vector_search", "hybrid_search"}, {"bm25_search", "hybrid_search"},
     {"vector_search"}}

InitStrategy == InitCommon /\ target = "strategy"

TSeedProduct ==
    /\ target = "strategy"
    /\ pipeline = NoPipeline
    /\ \E p \in SnapshotProducts :
          ServiceEnds(SvcCreateProduct(ServiceState, p.id, p.title, p.description, p.image_url,
                                       [emb |-> TRUE, cap |-> "text"]),
                      Call("create_product", p.id, None, <<>>, BlankQuery, 0))

\* execute_multi_stage(query, config, search_methods) is entered
TStart ==
    /\ target = "strategy"
    /\ pipeline = NoPipeline
    /\ \E query \in {BlankQuery, <<"t1", "d1">>}, config \in Configs, search_methods \in MethodSets :
          /\ pipeline' = StartedPipeline(query, config, search_methods)
          /\ call' = Call("execute_multi_stage", "", None, <<>>, query, 0)
    /\ outcome' = "running"
    /\ result' = <<>>
    /\ requests' = <<>>
    /\ UNCHANGED <<vector_repo, bm25_repo, image_repo, caption_repo, disk, target, threads>>

\* one iteration of the loop over config.stages
TExecuteStage ==
    /\ target = "strategy"
    /\ pipeline.status = "running"
    /\ pipeline.stage_idx < Len(pipeline.config.stages)
    /\ \E embOk \in BOOLEAN :
          \E r \in execute_stage(ServiceState, pipeline.query,
                                 pipeline.config.stages[pipeline.stage_idx + 1],
                                 pipeline.search_methods, pipeline.current_candidates, embOk) :
              /\ pipeline' = AfterStage(pipeline, r, Len(requests) + Len(r.requests))
              /\ requests' = requests \o r.requests
              /\ outcome' = IF pipeline'.status = "failed" THEN r.raised ELSE outcome
    /\ UNCHANGED <<vector_repo, bm25_repo, image_repo, caption_repo, disk, target, call, result, threads>>

\* the loop is over: the final limit is applied and the dict returned
TFinalize ==
    /\ target = "strategy"
    /\ pipeline.status = "running"
    /\ pipeline.stage_idx = Len(pipeline.config.stages)
    /\ pipeline' = [pipeline EXCEPT !.status = "finalized"]
    /\ result' = FinalResult(pipeline)
    /\ outcome' = "ok"
    /\ UNCHANGED <<vector_repo, bm25_repo, image_repo, caption_repo, disk, target, call, requests, threads>>

NextStrategy == TSeedProduct \/ TStart \/ TExecuteStage \/ TFinalize

SpecStrategy == InitStrategy /\ [][NextStrategy]_vars

(***************************************************************************)
(* The fusion functions applied to bounded inputs                          *)
(***************************************************************************)
FusionIds == {"p1", "p2", "p3"}

\* the longest ranked list handed to reciprocal_rank_fusion
MaxRanked == 3

\* the longest result list handed to combine_scores
MaxScored == 2

\* rankings: lists of distinct ids
Rankings(maxLen) ==
    UNION {{r \in [1..n -> FusionIds] : \A i, j \in 1..n : i # j => r[i] # r[j]} : n \in 0..maxLen}

\* a ranking with the scores a retriever attached: all 1.0, or 1/rank
Scored(ranking, flat) ==
    [i \in 1..Len(ranking) |->
        [id |-> ranking[i], score |-> IF flat THEN Frac(1, 1) ELSE Frac(1, i)]]

RankedLists == {Scored(r, flat) : r \in Rankings(MaxRanked), flat \in BOOLEAN}

\* the k handed to reciprocal_rank_fusion
RrfKs == {Some(1), Some(20), None}

\* result lists with raw scores 0, 5 or 10
RawScores == {Frac(0, 1), Frac(5, 1), Frac(10, 1)}

ScoredLists ==
    UNION {{[i \in 1..Len(r) |-> [id |-> r[i], score |-> sc[i]]] : sc \in [1..Len(r) -> RawScores]}
           : r \in Rankings(MaxScored)}

\* [bm25_weight, vector_weight], already normalized by the caller
FusionWeights ==
    {<<Frac(1, 1), Frac(0, 1)>>, <<Frac(1, 2), Frac(1, 2)>>, <<Frac(1, 4), Frac(3, 4)>>}

FusionCall(op, ranked_lists, k, weights, top_k) ==
    [op |-> op, ranked_lists |-> ranked_lists, k |-> k, weights |-> weights, top_k |-> top_k]

FusionCalls ==
    {FusionCall("reciprocal_rank_fusion", ls, k, <<>>, 0) :
        ls \in {<<>>} \cup {<<l>> : l \in RankedLists} \cup (RankedLists \X RankedLists),
        k \in RrfKs}
    \cup {FusionCall("combine_scores", ls, None, w, 0) :
            ls \in ScoredLists \X ScoredLists, w \in FusionWeights}
    \cup {FusionCall("combine_search_results", ls, k, <<>>, top_k) :
            ls \in Rankings(MaxScored) \X Rankings(MaxScored), k \in RrfKs, top_k \in 1..MaxK}

InitFusion ==
    /\ vector_repo = VectorRepositoryInit
    /\ bm25_repo = BM25RepositoryInit
    /\ image_repo = ImageRepositoryInit
    /\ caption_repo = CaptionRepositoryInit
    /\ disk = [vector |-> NoSnapshot, image |-> NoSnapshot, caption |-> NoSnapshot]
    /\ target = "fusion"
    /\ call \in FusionCalls
    /\ outcome = "called"
    /\ result = <<>>
    /\ requests = <<>>
    /\ pipeline = NoPipeline
    /\ threads = NoThreads

\* the call returns value
FusionReturns(value) ==
    /\ outcome = "called"
    /\ outcome' = "ok"
    /\ result' = value
    /\ UNCHANGED <<vector_repo, bm25_repo, image_repo, caption_repo, disk, target, call,
                   requests, pipeline, threads>>

FReciprocalRankFusion ==
    /\ target = "fusion"
    /\ call.op = "reciprocal_rank_fusion"
    /\ FusionReturns(reciprocal_rank_fusion(call.ranked_lists, call.k))

FCombineScores ==
    /\ target = "fusion"
    /\ call.op = "combine_scores"
    /\ FusionReturns(combine_scores(call.ranked_lists[1], call.ranked_lists[2], call.weights))

FCombineSearchResults ==
    /\ target = "fusion"
    /\ call.op = "combine_search_results"
    /\ FusionReturns(combine_search_results(call.ranked_lists[1], call.ranked_lists[2],
                                            call.k, call.top_k))

NextFusion == FReciprocalRankFusion \/ FCombineScores \/ FCombineSearchResults

SpecFusion == InitFusion /\ [][NextFusion]_vars

(***************************************************************************)
(* Two calls overlapping on one repository instance. The repositories hold *)
(* no lock, so the statements of two calls made from two threads           *)
(* interleave. A thread runs without preemption from one step below to the *)
(* next: a step is a group of consecutive statements of the method, cut at *)
(* the gateway calls and between the accesses to the index and the         *)
(* id-maps. The program allows finer interleavings as well.                *)
(***************************************************************************)
ThreadIds == {1, 2}

\* a call in flight: the method, its arguments, the statement it is at, its locals,
\* and how it ended
Thread(op, product, id, query, k) ==
    [op |-> op, product |-> product, id |-> id, query |-> query, k |-> k,
     pc |-> "enter", faiss_index |-> 0, products_list |-> <<>>, hits |-> <<>>, searched |-> <<>>,
     original_k |-> 0, raised |-> "running", result |-> <<>>]

At(t, pc) == [t EXCEPT !.pc = pc]

Raises(t, exception) == [t EXCEPT !.pc = "done", !.raised = exception]

Returns(t, value) == [t EXCEPT !.pc = "done", !.raised = "ok", !.result = value]

\* a step leaves the thread as t and the repository as repo
Stepped(t, repo) == [thread |-> t, repo |-> repo]

\* VectorRepository._rebuild_index and the create_index it calls
\*   "rebuild"  the test of self.products; the empty branch, or the clearing of the
\*              id-maps and of _next_index and products_list = list(products.values())
\*   "c_embed"  create_index: the emptiness check and generate_embeddings_batch
\*   "c_add"    _initialize_index and index.add
\*   "c_maps"   the loop over the products and _next_index += len(products)
RebuildStep(t, repo) ==
    CASE t.pc = "rebuild" ->
            IF repo.products = <<>>
            THEN Stepped(Returns(t, <<>>),
                         [repo EXCEPT !.index = None, !.product_id_map = EmptyMap,
                                      !.id_to_index_map = EmptyMap, !.next_index = 0])
            ELSE Stepped([t EXCEPT !.pc = "c_embed", !.products_list = repo.products],
                         [repo EXCEPT !.product_id_map = EmptyMap, !.id_to_index_map = EmptyMap,
                                      !.next_index = 0])
      [] t.pc = "c_embed" ->
            IF t.products_list = <<>> THEN Stepped(Raises(t, "ValueError"), repo)
            ELSE Stepped(At(t, "c_add"), repo)
      [] t.pc = "c_add" ->
            Stepped(At(t, "c_maps"),
                    [repo EXCEPT !.index = IndexAdd(initialize_index(repo.index),
                                                    TextEmbeddings(t.products_list))])
      [] t.pc = "c_maps" ->
            Stepped(Returns(t, <<>>),
                    [repo EXCEPT
                        !.product_id_map = SlotToId(repo.product_id_map, t.products_list, repo.next_index),
                        !.id_to_index_map = IdToSlot(repo.id_to_index_map, t.products_list, repo.next_index),
                        !.products = PutAll(repo.products, t.products_list),
                        !.next_index = repo.next_index + Len(t.products_list)])

\* VectorRepository.add_product
\*   "enter"     the duplicate check and _initialize_index
\*   "embed"     generate_embedding
\*   "index_add" index.add
\*   "maps"      faiss_index = _next_index, the three assignments, _next_index += 1
AddProductStep(t, repo) ==
    LET product == TheValue(t.product)
    IN CASE t.pc = "enter" ->
               IF product.id \in Keys(repo.products) THEN Stepped(Raises(t, "ValueError"), repo)
               ELSE Stepped(At(t, "embed"), [repo EXCEPT !.index = initialize_index(repo.index)])
         [] t.pc = "embed" -> Stepped(At(t, "index_add"), repo)
         [] t.pc = "index_add" ->
               IF repo.index = None THEN Stepped(Raises(t, "AttributeError"), repo)
               ELSE Stepped(At(t, "maps"),
                            [repo EXCEPT !.index = IndexAdd(repo.index,
                                                            <<Embed(get_combined_text(product))>>)])
         [] t.pc = "maps" ->
               Stepped(Returns(t, <<>>),
                       [repo EXCEPT
                           !.product_id_map = MapPut(repo.product_id_map, repo.next_index, product.id),
                           !.id_to_index_map = MapPut(repo.id_to_index_map, product.id, repo.next_index),
                           !.products = PutProduct(repo.products, product),
                           !.next_index = repo.next_index + 1])

\* VectorRepository.update_product
\*   "enter"  the existence check and products[product.id] = product
UpdateProductStep(t, repo) ==
    LET product == TheValue(t.product)
    IN IF t.pc = "enter"
       THEN IF product.id \notin Keys(repo.products) THEN Stepped(Raises(t, "ValueError"), repo)
            ELSE Stepped(At(t, "rebuild"), [repo EXCEPT !.products = PutProduct(repo.products, product)])
       ELSE RebuildStep(t, repo)

\* VectorRepository.delete_product
\*   "enter"  the existence check and faiss_index = id_to_index_map[product_id]
\*   "del"    the three del statements
DeleteProductStep(t, repo) ==
    CASE t.pc = "enter" ->
            IF t.id \notin Keys(repo.products) THEN Stepped(Raises(t, "ValueError"), repo)
            ELSE IF t.id \notin DOMAIN repo.id_to_index_map THEN Stepped(Raises(t, "KeyError"), repo)
            ELSE Stepped([t EXCEPT !.pc = "del", !.faiss_index = repo.id_to_index_map[t.id]], repo)
      [] t.pc = "del" ->
            IF t.faiss_index \notin DOMAIN repo.product_id_map THEN Stepped(Raises(t, "KeyError"), repo)
            ELSE LET r1 == [repo EXCEPT !.product_id_map = MapDel(repo.product_id_map, t.faiss_index)]
                 IN IF t.id \notin DOMAIN r1.id_to_index_map THEN Stepped(Raises(t, "KeyError"), r1)
                    ELSE LET r2 == [r1 EXCEPT !.id_to_index_map = MapDel(r1.id_to_index_map, t.id)]
                         IN IF t.id \notin Keys(r2.products) THEN Stepped(Raises(t, "KeyError"), r2)
                            ELSE Stepped(At(t, "rebuild"),
                                         [r2 EXCEPT !.products = DelProduct(r2.products, t.id)])
      [] OTHER -> RebuildStep(t, repo)

\* VectorRepository.search_similar: the set of ways one step may go
\*   "enter"    the blank-query and empty-index checks
\*   "embed"    generate_embedding
\*   "search"   k = min(k, index.ntotal) and index.search
\*   "convert"  the loop over the hits, reading product_id_map
SearchSimilarStep(t, repo) ==
    CASE t.pc = "enter" ->
            IF t.query = BlankQuery THEN {Stepped(Raises(t, "ValueError"), repo)}
            ELSE IF repo.index = None \/ Ntotal(repo.index) = 0 THEN {Stepped(Returns(t, <<>>), repo)}
            ELSE {Stepped(At(t, "embed"), repo)}
      [] t.pc = "embed" -> {Stepped(At(t, "search"), repo)}
      [] t.pc = "search" ->
            IF repo.index = None THEN {Stepped(Raises(t, "AttributeError"), repo)}
            ELSE LET vecs == TheValue(repo.index)
                 IN {Stepped([t EXCEPT !.pc = "convert", !.hits = hits, !.searched = vecs], repo) :
                        hits \in IndexSearch(vecs, Embed(t.query), Min(t.k, Len(vecs)))}
      [] t.pc = "convert" ->
            {Stepped(Returns(t, HitsToResults(t.hits, t.searched, Embed(t.query), repo.product_id_map)),
                     repo)}

\* BM25Repository.search_keywords: the set of ways one step may go
\*   "enter"    the blank-query and empty-index checks and original_k = retriever.k
\*   "set_k"    retriever.k = min(k, len(documents))
\*   "invoke"   retriever.invoke and the loop over the documents it returns
\*   "restore"  the finally clause: retriever.k = original_k
SearchKeywordsStep(t, repo) ==
    CASE t.pc = "enter" ->
            IF t.query = BlankQuery THEN {Stepped(Raises(t, "ValueError"), repo)}
            ELSE IF repo.retriever = None \/ repo.documents = <<>>
            THEN {Stepped(Returns(t, <<>>), repo)}
            ELSE {Stepped([t EXCEPT !.pc = "set_k", !.original_k = TheValue(repo.retriever).k], repo)}
      [] t.pc = "set_k" ->
            {Stepped(At(t, "invoke"),
                     [repo EXCEPT !.retriever =
                         Some([TheValue(repo.retriever) EXCEPT !.k = Min(t.k, Len(repo.documents))])])}
      [] t.pc = "invoke" ->
            LET docs == TheValue(repo.retriever).docs
            IN {Stepped([t EXCEPT !.pc = "restore", !.result = DocsToResults(docs, picked, <<>>)], repo) :
                   picked \in RankedDocs(docs, Min(TheValue(repo.retriever).k, Len(docs)))}
      [] t.pc = "restore" ->
            {Stepped(Returns(t, t.result),
                     [repo EXCEPT !.retriever = Some([TheValue(repo.retriever) EXCEPT !.k = t.original_k])])}

\* the calls two threads make on the vector repository
VectorCalls ==
    {Thread("add_product", Some(p), p.id, BlankQuery, 0) : p \in SnapshotProducts}
    \cup {Thread("update_product", Some([p EXCEPT !.title = "t2"]), p.id, BlankQuery, 0) :
            p \in {q \in SnapshotProducts : q.id = "p1"}}
    \cup {Thread("delete_product", None, id, BlankQuery, 0) : id \in ProductIds}
    \cup {Thread("search_similar", None, "", <<"t1", "d1">>, k) : k \in {2}}

\* the searches two threads make on the BM25 repository
KeywordCalls ==
    {Thread("search_keywords", None, "", <<"t1", "d1">>, k) : k \in 1..2}

\* two calls that overlap, and the repositories as they were when the calls were made
Overlap(before) == [op |-> "overlap", before |-> before]

InitConcurrent == InitCommon /\ target = "concurrent"

\* before the two calls: products are added one call at a time
NSeedProduct ==
    /\ target = "concurrent"
    /\ threads = NoThreads
    /\ \E p \in SnapshotProducts :
          /\ p.id \notin Keys(vector_repo.products)
          /\ vector_repo' = VecAddProduct(vector_repo, p, TRUE).repo
          /\ bm25_repo' = BM25AddProduct(bm25_repo, p).repo
          /\ call' = Call("add", p.id, Some(p), <<>>, BlankQuery, 0)
    /\ UNCHANGED <<image_repo, caption_repo, disk, target, outcome, result, requests, pipeline,
                   threads>>

\* two threads each make a call on the same repository instance
NCall ==
    /\ target = "concurrent"
    /\ threads = NoThreads
    /\ \E pair \in (VectorCalls \X VectorCalls) \cup (KeywordCalls \X KeywordCalls) :
          threads' = pair
    /\ call' = Overlap([vector_repo |-> vector_repo, bm25_repo |-> bm25_repo])
    /\ outcome' = "running"
    /\ UNCHANGED <<vector_repo, bm25_repo, image_repo, caption_repo, disk, target, result,
                   requests, pipeline>>

\* thread i takes the step that leaves it and the vector repository as s
VectorStepped(i, s) ==
    /\ threads' = [threads EXCEPT ![i] = s.thread]
    /\ vector_repo' = s.repo
    /\ outcome' = IF \A j \in ThreadIds : threads'[j].pc = "done" THEN "ok" ELSE "running"
    /\ UNCHANGED <<bm25_repo, image_repo, caption_repo, disk, target, call, result, requests,
                   pipeline>>

Running(i, op) == threads # NoThreads /\ threads[i].op = op /\ threads[i].pc # "done"

NAddProduct ==
    /\ target = "concurrent"
    /\ \E i \in ThreadIds :
          Running(i, "add_product") /\ VectorStepped(i, AddProductStep(threads[i], vector_repo))

NUpdateProduct ==
    /\ target = "concurrent"
    /\ \E i \in ThreadIds :
          Running(i, "update_product") /\ VectorStepped(i, UpdateProductStep(threads[i], vector_repo))

NDeleteProduct ==
    /\ target = "concurrent"
    /\ \E i \in ThreadIds :
          Running(i, "delete_product") /\ VectorStepped(i, DeleteProductStep(threads[i], vector_repo))

NSearchSimilar ==
    /\ target = "concurrent"
    /\ \E i \in ThreadIds :
          /\ Running(i, "search_similar")
          /\ \E s \in SearchSimilarStep(threads[i], vector_repo) : VectorStepped(i, s)

NSearchKeywords ==
    /\ target = "concurrent"
    /\ \E i \in ThreadIds :
          /\ Running(i, "search_keywords")
          /\ \E s \in SearchKeywordsStep(threads[i], bm25_repo) :
                /\ threads' = [threads EXCEPT ![i] = s.thread]
                /\ bm25_repo' = s.repo
                /\ outcome' = IF \A j \in ThreadIds : threads'[j].pc = "done" THEN "ok" ELSE "running"
    /\ UNCHANGED <<vector_repo, image_repo, caption_repo, disk, target, call, result, requests,
                   pipeline>>

NextConcurrent ==
    \/ NSeedProduct \/ NCall
    \/ NAddProduct \/ NUpdateProduct \/ NDeleteProduct \/ NSearchSimilar \/ NSearchKeywords

SpecConcurrent == InitConcurrent /\ [][NextConcurrent]_vars

(***************************************************************************)
(* EmbeddingService.generate_embedding, one statement at a time            *)
(***************************************************************************)
\* settings.MAX_RETRIES: int(os.getenv("MAX_RETRIES", "3"))
MAX_RETRIES == 3

\* the largest MAX_RETRIES a behaviour is configured with
MaxRetries == 4

\* the values self.max_retries is configured with
ConfiguredRetries == (0..MaxRetries) \cup {MAX_RETRIES}

EmbeddingCall(text, max_retries) ==
    [op |-> "generate_embedding", text |-> text, max_retries |-> max_retries]

\* what generate_embedding does, in order: calls of client.embeddings.create and
\* calls of time.sleep
Created(attempt, answered) == [kind |-> "create", attempt |-> attempt, answered |-> answered]

Slept(seconds) == [kind |-> "sleep", seconds |-> seconds]

\* the call is at statement pc, the loop variable being attempt
Embedding(pc, attempt) == <<[op |-> "generate_embedding", pc |-> pc, attempt |-> attempt]>>

InitRetry ==
    /\ vector_repo = VectorRepositoryInit
    /\ bm25_repo = BM25RepositoryInit
    /\ image_repo = ImageRepositoryInit
    /\ caption_repo = CaptionRepositoryInit
    /\ disk = [vector |-> NoSnapshot, image |-> NoSnapshot, caption |-> NoSnapshot]
    /\ target = "embedding"
    /\ call \in {EmbeddingCall(text, m) : text \in Texts \cup {BlankQuery}, m \in ConfiguredRetries}
    /\ outcome = "running"
    /\ result = None
    /\ requests = <<>>
    /\ pipeline = NoPipeline
    /\ threads = Embedding("enter", 0)

\* generate_embedding leaves with value (None: no value) or raising
EmbeddingEnds(value, raised, events) ==
    /\ threads' = Embedding("done", threads[1].attempt)
    /\ outcome' = raised
    /\ result' = value
    /\ requests' = events

\* if not text or not text.strip(): raise ValueError
ECheckText ==
    /\ target = "embedding" /\ threads[1].pc = "enter"
    /\ IF call.text = BlankQuery
       THEN EmbeddingEnds(None, "ValueError", requests)
       ELSE /\ threads' = Embedding("for", 0)
            /\ UNCHANGED <<outcome, result, requests>>
    /\ UNCHANGED <<vector_repo, bm25_repo, image_repo, caption_repo, disk, target, call, pipeline>>

\* for attempt in range(self.max_retries): the next value of attempt, or the end of
\* the loop and of the function body, which returns None
EFor ==
    /\ target = "embedding" /\ threads[1].pc = "for"
    /\ IF threads[1].attempt < call.max_retries
       THEN /\ threads' = Embedding("create", threads[1].attempt)
            /\ UNCHANGED <<outcome, result, requests>>
       ELSE EmbeddingEnds(None, "ok", requests)
    /\ UNCHANGED <<vector_repo, bm25_repo, image_repo, caption_repo, disk, target, call, pipeline>>

\* the try block: client.embeddings.create answers and the embedding is returned, or
\* it raises; the handler raises Exception on the last attempt and goes on to sleep
\* otherwise
ECreate ==
    /\ target = "embedding" /\ threads[1].pc = "create"
    /\ \E answered \in BOOLEAN :
          LET attempt == threads[1].attempt
              events == Append(requests, Created(attempt, answered))
          IN IF answered THEN EmbeddingEnds(Some(Embed(call.text)), "ok", events)
             ELSE IF attempt = call.max_retries - 1 THEN EmbeddingEnds(None, "Exception", events)
             ELSE /\ threads' = Embedding("sleep", attempt)
                  /\ requests' = events
                  /\ UNCHANGED <<outcome, result>>
    /\ UNCHANGED <<vector_repo, bm25_repo, image_repo, caption_repo, disk, target, call, pipeline>>

\* time.sleep(2 ** attempt), then the next iteration
ESleep ==
    /\ target = "embedding" /\ threads[1].pc = "sleep"
    /\ threads' = Embedding("for", threads[1].attempt + 1)
    /\ requests' = Append(requests, Slept(2 ^ threads[1].attempt))
    /\ UNCHANGED <<vector_repo, bm25_repo, image_repo, caption_repo, disk, target, call, outcome,
                   result, pipeline>>

NextRetry == ECheckText \/ EFor \/ ECreate \/ ESleep

SpecRetry == InitRetry /\ [][NextRetry]_vars

(***************************************************************************)
(* The repository a behaviour of Spec drives                               *)
(***************************************************************************)
IsFaiss == target \in {"vector", "image", "caption"}

FaissRepo ==
    CASE target = "vector" -> vector_repo
      [] target = "image" -> image_repo
      [] OTHER -> caption_repo

DrivenRepo == IF target = "bm25" THEN bm25_repo ELSE FaissRepo

\* the number of product ids, of id-map slots and of backing-index entries agree
CountsAgree(t, repo) ==
    IF t = "bm25"
    THEN Cardinality(Keys(repo.products)) = Len(repo.documents)
    ELSE /\ Cardinality(Keys(repo.products)) = Cardinality(DOMAIN repo.product_id_map)
         /\ Cardinality(Keys(repo.products)) = Cardinality(DOMAIN repo.id_to_index_map)
         /\ Cardinality(Keys(repo.products)) = Ntotal(repo.index)

Mutations == {"add", "update", "delete"}

\* C1: every Add/Update/Delete call that returns, made on a repository whose product
\* ids, id-map slots and backing-index entries agree in number, leaves them agreeing
\* in number.
C1_CountsAgreeAfterMutation ==
    [][(call'.op \in Mutations /\ outcome' = "ok" /\ CountsAgree(target, DrivenRepo))
          => CountsAgree(target, DrivenRepo')]_vars

\* C5: Add of an indexed id, and Update or Delete of an id that is not indexed, raise
\* ValueError and leave the repository exactly as it was.
C5_RejectedCallsChangeNothing ==
    [][/\ (call'.op = "add" /\ call'.id \in Keys(DrivenRepo.products))
            => (outcome' = "ValueError" /\ DrivenRepo' = DrivenRepo)
       /\ (call'.op \in {"update", "delete"} /\ call'.id \notin Keys(DrivenRepo.products))
            => (outcome' = "ValueError" /\ DrivenRepo' = DrivenRepo)]_vars

\* C5 witness: a duplicate Add was rejected on a repository that holds products
C5_Witness ==
    /\ call.op = "add" /\ outcome = "ValueError"
    /\ target = "vector" /\ call.id \in Keys(vector_repo.products)
    /\ Ntotal(vector_repo.index) > 0

\* C6: an Update that succeeds right after a successful Update with the same product
\* leaves the repository as the first one left it.
C6_UpdateIdempotent ==
    [][(/\ call.op = "update" /\ outcome = "ok"
        /\ call'.op = "update" /\ outcome' = "ok"
        /\ call'.product = call.product)
          => DrivenRepo' = DrivenRepo]_vars

\* the ids of a result list
ResultIds(r) == {r[i].id : i \in 1..Len(r)}

\* C7: a search with k >= 1 that returns gives exactly min(k, number of indexed
\* products) results, each a distinct indexed product id (none on an empty index).
C7_SearchReturnsMinKCount ==
    (IsFaiss /\ call.op = "search" /\ outcome = "ok")
        => /\ Len(result) = Min(call.k, Cardinality(Keys(FaissRepo.products)))
           /\ Cardinality(ResultIds(result)) = Len(result)
           /\ ResultIds(result) \subseteq Keys(FaissRepo.products)

\* C10: create_index with a non-empty list that returns leaves exactly the given
\* products in the repository and its backing index; with an empty list it raises
\* ValueError and changes nothing.
C10_CreateIndexReplaces ==
    [][(call'.op = "create_index")
          => IF call'.plist = <<>>
             THEN outcome' = "ValueError" /\ DrivenRepo' = DrivenRepo
             ELSE outcome' = "ok"
                    => /\ DrivenRepo'.products = call'.plist
                       /\ CountsAgree(target, DrivenRepo')]_vars

(***************************************************************************)
(* Snapshots                                                               *)
(***************************************************************************)
\* every probe gets the same possible answers from both repositories
SameSearchResults(a, b) ==
    \A q \in Probes, k \in 1..MaxK : SearchByEmbedding(a, q, k) = SearchByEmbedding(b, q, k)

SnapshotMissing(snap) == snap.index_file = "absent" /\ snap.metadata_file = "absent"

\* exactly one of the two files is there
SnapshotPartial(snap) == (snap.index_file = "absent") # (snap.metadata_file = "absent")

\* both files are there and one of them cannot be read
SnapshotCorrupt(snap) ==
    /\ snap.index_file # "absent" /\ snap.metadata_file # "absent"
    /\ "corrupt" \in {snap.index_file, snap.metadata_file}

\* C8: save_index followed by load_index on a fresh instance gives the fresh instance
\* the saved repository's products, id-maps and index, hence the same search results
\* (stated for a directory that no interrupted write has left partial or unreadable).
C8_SaveThenLoadRoundTrip ==
    [][(/\ call.op = "save_index" /\ outcome = "ok"
        /\ ~SnapshotPartial(TargetSnapshot) /\ ~SnapshotCorrupt(TargetSnapshot)
        /\ call'.op = "load_fresh")
          => /\ outcome' = "ok"
             /\ TargetRepo' = TargetRepo
             /\ SameSearchResults(TargetRepo', TargetRepo)]_vars

\* the instance load_index is called on
Loading(op) == IF op = "load_fresh" THEN VectorRepositoryInit ELSE TargetRepo

LoadCalls == {"load_index", "load_fresh"}

\* C9 as stated: Load without a snapshot raises nothing and changes nothing; Load on a
\* corrupt or partial snapshot raises.
C9_PartialSnapshotIsFatal ==
    [][(call'.op \in LoadCalls)
          => /\ SnapshotMissing(TargetSnapshot)
                  => (outcome' = "ok" /\ TargetRepo' = Loading(call'.op))
             /\ (SnapshotPartial(TargetSnapshot) \/ SnapshotCorrupt(TargetSnapshot))
                  => outcome' # "ok"]_vars

\* C9 amended: Load without a snapshot, and Load on a partial snapshot (exactly one of
\* the two files present), raise nothing and change nothing; Load raises when both
\* files are present and one of them cannot be read.
C9_PartialSnapshotIsColdStart ==
    [][(call'.op \in LoadCalls)
          => /\ (SnapshotMissing(TargetSnapshot) \/ SnapshotPartial(TargetSnapshot))
                  => (outcome' = "ok" /\ TargetRepo' = Loading(call'.op))
             /\ SnapshotCorrupt(TargetSnapshot) => outcome' # "ok"]_vars

\* C9 witness: load_index returned on a directory that holds the index file alone,
\* with products in memory
C9_Witness ==
    /\ call.op = "load_index" /\ outcome = "ok"
    /\ SnapshotPartial(TargetSnapshot)
    /\ TargetRepo.products # <<>>

(***************************************************************************)
(* ProductService: consistency of the four repositories                    *)
(***************************************************************************)
RepoNames == {"vector_repo", "bm25_repo", "image_repo", "caption_repo"}

\* the repositories of service state s that hold product id
Holders(s, id) == {r \in RepoNames : id \in Keys(s[r].products)}

\* products.get(id) in one repository
ProductEntry(repo, id) ==
    IF id \in Keys(repo.products) THEN Some(GetProduct(repo.products, id)) ELSE None

\* C2: create_product of an id that no repository holds leaves the product in all four
\* repositories when it returns and in none of them when it raises.
C2_CreateProductAllOrNothing ==
    [][(call'.op = "create_product" /\ Holders(ServiceState, call'.id) = {})
          => IF outcome' = "ok" THEN Holders(ServiceState', call'.id) = RepoNames
                                ELSE Holders(ServiceState', call'.id) = {}]_vars

\* C3: update_product or delete_product of a product that all four repositories hold
\* leaves the product as it was in every repository when it raises; when it returns,
\* a delete has removed it from all four and an update has put the same product in
\* all four.
C3_UpdateDeleteAllOrNothing ==
    [][(call'.op \in {"update_product", "delete_product"}
          /\ Holders(ServiceState, call'.id) = RepoNames)
          => IF outcome' # "ok"
             THEN \A r \in RepoNames :
                     ProductEntry(ServiceState'[r], call'.id) = ProductEntry(ServiceState[r], call'.id)
             ELSE IF call'.op = "delete_product"
             THEN Holders(ServiceState', call'.id) = {}
             ELSE /\ Holders(ServiceState', call'.id) = RepoNames
                  /\ \A r \in RepoNames :
                        ProductEntry(ServiceState'[r], call'.id)
                            = ProductEntry(vector_repo', call'.id)]_vars

\* the four repositories hold the same set of product ids
SameIdSets(s) ==
    \A r \in RepoNames : Keys(s[r].products) = Keys(s.vector_repo.products)

ServiceMutations ==
    {"create_product", "batch_create_products", "update_product", "delete_product", "clear_all_data"}

\* C4: a ProductService operation that returns, made when the four repositories hold
\* the same set of product ids, leaves them holding the same set of product ids.
C4_RepositoriesHoldSameIds ==
    [][(call'.op \in ServiceMutations /\ outcome' = "ok" /\ SameIdSets(ServiceState))
          => SameIdSets(ServiceState')]_vars


(***************************************************************************)
(* Reciprocal rank fusion and weighted score combination                   *)
(***************************************************************************)
Returned(op) == target = "fusion" /\ call.op = op /\ outcome = "ok"

\* the rank of id in a ranked list that holds it, from 1
RankOf(ranked_list, id) == CHOOSE i \in 1..Len(ranked_list) : ranked_list[i].id = id

\* the sum of 1/(k + rank) over the lists that hold id
RECURSIVE RrfScore(_, _, _)
RrfScore(ranked_lists, id, k) ==
    IF ranked_lists = <<>> THEN Frac(0, 1)
    ELSE LET rest == RrfScore(Tail(ranked_lists), id, k)
         IN IF id \in ScoredIds(Head(ranked_lists))
            THEN FracAdd(Frac(1, k + RankOf(Head(ranked_lists), id)), rest)
            ELSE rest

\* all the entries of the lists in the order they are read
RECURSIVE Flattened(_)
Flattened(ranked_lists) ==
    IF ranked_lists = <<>> THEN <<>> ELSE Head(ranked_lists) \o Flattened(Tail(ranked_lists))

FirstSeen(ranked_lists, id) ==
    LET all == Flattened(ranked_lists)
    IN CHOOSE i \in 1..Len(all) : all[i].id = id /\ \A j \in 1..(i - 1) : all[j].id # id

\* descending by score, ties in the order given by Before
Ordered(results, Before(_, _)) ==
    \A i, j \in 1..Len(results) :
        i < j => /\ ~FracLess(results[i].score, results[j].score)
                 /\ FracEq(results[i].score, results[j].score)
                        => Before(results[i].id, results[j].id)

\* the same rankings with every score replaced by 1.0
RECURSIVE RanksOnly(_)
RanksOnly(ranked_lists) ==
    IF ranked_lists = <<>> THEN <<>>
    ELSE <<WithDummyScores(IdsOf(Head(ranked_lists)))>> \o RanksOnly(Tail(ranked_lists))

\* C11: reciprocal_rank_fusion gives every id that occurs in the input rankings once,
\* with the sum of 1/(k + rank) (rank from 1) over the lists holding it as its score,
\* sorted by descending score with ties in first-seen order; no input lists give the
\* empty list; the order of the ids is the one the ranks alone give, whatever the
\* scores carried by the entries
C11_FuseSumsReciprocalRanks ==
    Returned("reciprocal_rank_fusion") =>
        LET ranked_lists == call.ranked_lists
            k == IF call.k = None THEN default_k ELSE TheValue(call.k)
            Before(a, b) == FirstSeen(ranked_lists, a) < FirstSeen(ranked_lists, b)
        IN /\ ranked_lists = <<>> => result = <<>>
           /\ ScoredIds(result) = ScoredIds(Flattened(ranked_lists))
           /\ Len(result) = Cardinality(ScoredIds(result))
           /\ \A i \in 1..Len(result) :
                 FracEq(result[i].score, RrfScore(ranked_lists, result[i].id, k))
           /\ Ordered(result, Before)
           /\ IdsOf(result) = IdsOf(reciprocal_rank_fusion(RanksOnly(ranked_lists), call.k))

\* two rankings that disagree were fused: an id ranked in both, a tie between two ids,
\* and scores other than 1.0 on the entries
C11_Witness ==
    /\ Returned("reciprocal_rank_fusion")
    /\ Len(call.ranked_lists) = 2
    /\ call.ranked_lists # RanksOnly(call.ranked_lists)
    /\ IdsOf(call.ranked_lists[1]) # IdsOf(call.ranked_lists[2])
    /\ ScoredIds(call.ranked_lists[1]) \cap ScoredIds(call.ranked_lists[2]) # {}
    /\ Len(result) = 3
    /\ \E i \in 1..2 : FracEq(result[i].score, result[i + 1].score)


\* the min-max normalized score of id in a result list; 0 when the list lacks id
NormalizedScore(results, id) ==
    IF id \notin ScoredIds(results) THEN Frac(0, 1)
    ELSE LET s == ScoreOf(results, id)
             lo == CHOOSE x \in {results[i].score : i \in 1..Len(results)} :
                       \A i \in 1..Len(results) : ~FracLess(results[i].score, x)
             hi == CHOOSE x \in {results[i].score : i \in 1..Len(results)} :
                       \A i \in 1..Len(results) : ~FracLess(x, results[i].score)
         IN IF FracEq(lo, hi) THEN Frac(1, 1)
            ELSE Frac((s.num - lo.num) * hi.den * lo.den, (hi.num - lo.num) * s.den * lo.den)

InUnitInterval(x) == ~FracLess(x, Frac(0, 1)) /\ ~FracLess(Frac(1, 1), x)

\* the result list of Scenario C
ScenarioC == <<[id |-> "p1", score |-> Frac(10, 1)], [id |-> "p2", score |-> Frac(5, 1)]>>

\* C12: combine_scores gives every product of either list once, scored by the sum over
\* the two lists of its min-max normalized score (in [0,1]; 1.0 for every item of a list
\* whose scores are all equal; 0 for a list that lacks the product) times the list's
\* weight, sorted by descending score; the single list [(x,10),(y,5)] with weight 1.0
\* yields x = 1.0 and y = 0.0
C12_CombineNormalizesAndWeights ==
    Returned("combine_scores") =>
        LET bm25_results == call.ranked_lists[1]
            vector_results == call.ranked_lists[2]
            Expected(id) ==
                FracAdd(FracMul(NormalizedScore(bm25_results, id), call.weights[1]),
                        FracMul(NormalizedScore(vector_results, id), call.weights[2]))
            AnyOrder(a, b) == TRUE
        IN /\ ScoredIds(result) = ScoredIds(bm25_results) \cup ScoredIds(vector_results)
           /\ Len(result) = Cardinality(ScoredIds(result))
           /\ \A id \in ScoredIds(result) :
                 /\ InUnitInterval(NormalizedScore(bm25_results, id))
                 /\ InUnitInterval(NormalizedScore(vector_results, id))
                 /\ FracEq(ScoreOf(result, id), Expected(id))
           /\ Ordered(result, AnyOrder)
           /\ (bm25_results = ScenarioC /\ vector_results = <<>>
                  /\ FracEq(call.weights[1], Frac(1, 1)))
                 => /\ IdsOf(result) = <<"p1", "p2">>
                    /\ FracEq(result[1].score, Frac(1, 1))
                    /\ FracEq(result[2].score, Frac(0, 1))

\* two lists were combined with both weights positive: one with all scores equal, one
\* with different scores, and a product missing from one of them
C12_Witness ==
    /\ Returned("combine_scores")
    /\ Len(call.ranked_lists[1]) = 2 /\ Len(call.ranked_lists[2]) = 2
    /\ FracEq(call.ranked_lists[1][1].score, call.ranked_lists[1][2].score)
    /\ FracLess(call.ranked_lists[2][1].score, call.ranked_lists[2][2].score)
    /\ ScoredIds(call.ranked_lists[1]) # ScoredIds(call.ranked_lists[2])
    /\ FracLess(Frac(0, 1), call.weights[1]) /\ FracLess(Frac(0, 1), call.weights[2])
    /\ Len(result) = 3
    /\ FracLess(result[3].score, result[1].score)


(***************************************************************************)
(* The text searches of SearchService                                      *)
(***************************************************************************)
Searched(op) == target = "search" /\ call.op = op

\* top_k as the call uses it
EffectiveTopK == IF call.k = None THEN DEFAULT_TOP_K ELSE TheValue(call.k)

Distinct(ids) == \A i, j \in 1..Len(ids) : i # j => ids[i] # ids[j]

\* C13: hybrid_search asks the BM25 repository and then the vector repository for
\* min(2 * top_k, 50) candidates each, returns the first top_k ids of combine_scores
\* over the two answers with the weights divided by their sum, and with a negative
\* weight or both weights zero raises ValueError without having queried a repository
C13_HybridRequestsCombinesTruncates ==
    (Searched("hybrid_search") /\ call.query # BlankQuery) =>
        LET bw == IF call.weights[1] = None THEN DEFAULT_BM25_WEIGHT ELSE TheValue(call.weights[1])
            vw == IF call.weights[2] = None THEN DEFAULT_VECTOR_WEIGHT ELSE TheValue(call.weights[2])
            invalid == \/ bw.num < 0 \/ vw.num < 0
                       \/ (bw.num = 0 /\ vw.num = 0)
            search_k == IF 2 * EffectiveTopK < 50 THEN 2 * EffectiveTopK ELSE 50
            weights == <<Frac(bw.num * vw.den, bw.num * vw.den + vw.num * bw.den),
                         Frac(vw.num * bw.den, bw.num * vw.den + vw.num * bw.den)>>
        IN /\ invalid => outcome = "ValueError" /\ requests = <<>> /\ result = <<>>
           /\ ~invalid => /\ requests # <<>>
                          /\ \A i \in 1..Len(requests) : requests[i].k = search_k
           /\ outcome = "ok" =>
                 /\ ~invalid
                 /\ requests = <<Request("bm25", search_k), Request("vector", search_k)>>
                 /\ Len(result) <= EffectiveTopK
                 /\ Distinct(result)
                 /\ FracEq(FracAdd(weights[1], weights[2]), Frac(1, 1))
                 /\ \E b \in BM25SearchKeywords(bm25_repo, call.query, search_k),
                       v \in VecSearchSimilar(vector_repo, call.query, search_k, TRUE) :
                       result = Prefix(IdsOf(combine_scores(b.result, v.result, weights)),
                                       EffectiveTopK)

\* a hybrid search for one result over a catalog of two products, with weights 3 and 1:
\* two candidates were requested from each repository and one id came back
C13_Witness ==
    /\ Searched("hybrid_search")
    /\ outcome = "ok"
    /\ call.k = Some(1)
    /\ call.weights = <<Some(Frac(3, 1)), Some(Frac(1, 1))>>
    /\ Len(bm25_repo.documents) = 2
    /\ requests = <<Request("bm25", 2), Request("vector", 2)>>
    /\ Len(result) = 1


\* a returned RRF search through the entry path op fused with k = 20 when the caller
\* gave no k and with the caller's k otherwise, after asking each repository for
\* max(5 * top_k, 100) candidates, and returned at most top_k distinct ids
RrfContract(op) ==
    (Searched(op) /\ outcome = "ok") =>
        LET rrf_k == IF call.weights[1] = None THEN 20 ELSE TheValue(call.weights[1])
            retrieval_limit == IF 5 * EffectiveTopK > 100 THEN 5 * EffectiveTopK ELSE 100
        IN /\ requests = <<Request("bm25", retrieval_limit), Request("vector", retrieval_limit),
                           Request("rrf", rrf_k)>>
           /\ Len(result) <= EffectiveTopK
           /\ Distinct(result)

\* C14: the RRF search uses k = 20 when the caller supplies none and the caller's value
\* otherwise, requests max(5 * top_k, 100) candidates from each repository and returns
\* at most top_k fused ids, through SearchService.rrf_search and through
\* ProductService.search_products with search_type 'rrf'
C14_RrfKOnEveryEntryPath == RrfContract("rrf_search") /\ RrfContract("search_products")


(***************************************************************************)
(* The searches by image                                                   *)
(***************************************************************************)
WeightErrors ==
    {"ValueError: Los pesos deben ser no negativos", "ValueError: Los pesos deben sumar 1"}

\* the gateways answer: the embedding API works and the captioning call gives a caption
GatewaysAnswer == call.gw.emb /\ call.gw.cap = "text"

\* a call of op with an image rejects the weights exactly when one is negative or their
\* sum is further than 1e-6 from 1; with 0.4/0.2/0.4, answering gateways and a
\* non-blank text where one is taken it returns a result list; 0.4/0.2/0.3 is rejected
WeightsContract(op) ==
    (Searched(op) /\ call.query_image.kind = "pil") =>
        LET w == call.weights
            valid == w[1] >= 0 /\ w[2] >= 0 /\ w[3] >= 0 /\ w[1] + w[2] + w[3] = 10
        IN /\ outcome \in WeightErrors <=> ~valid
           /\ (w = <<4, 2, 4>> /\ GatewaysAnswer
                  /\ (op = "hybrid_search_image_description_A" => call.query # BlankQuery))
                 => outcome = "ok"
           /\ w = <<4, 2, 3>> => outcome \in WeightErrors

\* C15: hydrid_search_image_A and hybrid_search_image_description_A accept a weight
\* triple exactly when the three weights are non-negative and sum to 1 within 1e-6;
\* given an image, 0.4/0.2/0.4 succeeds and returns results and 0.4/0.2/0.3 fails on
\* the weights
C15_WeightsAcceptedWithinTolerance ==
    WeightsContract("hydrid_search_image_A") /\ WeightsContract("hybrid_search_image_description_A")


\* k as the searches by image use it
EffectiveImageK == IF call.k = None THEN 10 ELSE TheValue(call.k)

\* the answers the three modalities may have given to the returned call: image
\* similarities, caption similarities, description similarities
ModalityAnswers ==
    LET image == call.query_image.image
        k2 == EffectiveImageK * 2
        captions == IF caption_repo.index = None \/ Ntotal(caption_repo.index) = 0 THEN {<<>>}
                    ELSE SearchByEmbedding(caption_repo, Embed(CaptionOf(image)), k2)
        descriptions ==
            IF call.op = "hybrid_search_image_description_A"
            THEN {v.result : v \in VecSearchSimilar(vector_repo, call.query, k2, TRUE)}
            ELSE {v.result : v \in VecSearchSimilar(vector_repo, CaptionOf(image), k2, TRUE)}
    IN SearchByEmbedding(image_repo, EmbedImage(image), k2) \X captions \X descriptions

\* wI * sI + wC * sC + wD * sD
WeightedScore(s_i, s_c, s_d, w) ==
    FracAdd(FracAdd(FracMul(s_i, Frac(w[1], 10)), FracMul(s_c, Frac(w[2], 10))),
            FracMul(s_d, Frac(w[3], 10)))

\* the largest similarity of pid in one modality's answer, 0 when it has none
MaxSimilarity(answer, pid) ==
    LET sims == {answer[i].score : i \in {j \in 1..Len(answer) : answer[j].id = pid}}
    IN IF sims = {} THEN Frac(0, 1)
       ELSE CHOOSE x \in sims : \A y \in sims : ~FracLess(x, y)

\* the returned list is the scoring of the modality answers m
ScoredFrom(m) ==
    LET ids == ScoredIds(m[1]) \cup ScoredIds(m[2]) \cup ScoredIds(m[3])
        Score(pid) == WeightedScore(MaxSimilarity(m[1], pid), MaxSimilarity(m[2], pid),
                                    MaxSimilarity(m[3], pid), call.weights)
        passing == {pid \in ids : ~FracLess(Score(pid), call.umbral)}
    IN /\ \A i \in 1..Len(result) :
             /\ result[i].id \in passing
             /\ FracEq(result[i].s_i, MaxSimilarity(m[1], result[i].id))
             /\ FracEq(result[i].s_c, MaxSimilarity(m[2], result[i].id))
             /\ FracEq(result[i].s_d, MaxSimilarity(m[3], result[i].id))
             /\ FracEq(result[i].score, Score(result[i].id))
       /\ Len(result) = Min(EffectiveImageK, Cardinality(passing))
       /\ \A pid \in passing \ ScoredIds(result) :
             \A i \in 1..Len(result) : ~FracLess(result[i].score, Score(pid))

\* a call of op with an image, weights it accepts, answering gateways and a non-blank
\* text where one is taken returns a list that holds each product at most once, with
\* its largest similarity per modality (0 for a modality that did not return it) and
\* the score wI*sI + wC*sC + wD*sD, only products whose score is at least the
\* threshold, the best k of them, sorted by descending score
ScoringContract(op) ==
    (/\ Searched(op)
     /\ call.query_image.kind = "pil"
     /\ outcome \notin WeightErrors
     /\ GatewaysAnswer
     /\ op = "hybrid_search_image_description_A" => call.query # BlankQuery) =>
        LET AnyOrder(a, b) == TRUE
        IN /\ outcome = "ok"
           /\ Distinct(IdsOf(result))
           /\ Len(result) <= EffectiveImageK
           /\ Ordered(result, AnyOrder)
           /\ \A i \in 1..Len(result) : ~FracLess(result[i].score, call.umbral)
           /\ \E m \in ModalityAnswers : ScoredFrom(m)

\* C16: hydrid_search_image_A and hybrid_search_image_description_A keep the largest
\* similarity per product and modality, score each product wI*sI + wC*sC + wD*sD with
\* an absent modality counted as 0, and return only the products whose score is at
\* least the threshold, sorted by descending score, at most k and each at most once
C16_WeightedScoreThresholdTopK ==
    ScoringContract("hydrid_search_image_A") /\ ScoringContract("hybrid_search_image_description_A")


\* the caption search_by_caption_A works with: the one generated for a PIL image, or
\* the string handed in; obtained when captioning did not raise and the text is not blank
CaptionObtained ==
    \/ call.query_image.kind = "pil" /\ call.gw.cap = "text"
    \/ call.query_image.kind = "str" /\ call.query_image.text # BlankQuery

CaptionText ==
    IF call.query_image.kind = "pil" THEN CaptionOf(call.query_image.image)
    ELSE call.query_image.text

\* C17: search_by_caption_A raises whenever captioning raises or gives a blank text,
\* and returns the empty list only when a caption was obtained and the caption index
\* has no match for it
C17_NoCaptionIsAnError ==
    (Searched("search_by_caption_A") /\ call.query_image.kind # "none") =>
        /\ ~CaptionObtained => outcome # "ok"
        /\ (call.query_image.kind = "pil" /\ call.gw.cap = "raise") => outcome = "UnboundLocalError"
        /\ (call.query_image.kind = "pil" /\ call.gw.cap = "blank") => outcome = "RuntimeError"
        /\ (outcome = "ok" /\ result = <<>>) =>
              /\ CaptionObtained
              /\ \/ caption_repo.index = None
                 \/ Ntotal(caption_repo.index) = 0
                 \/ <<>> \in SearchByEmbedding(caption_repo, Embed(CaptionText), EffectiveImageK)
        /\ (outcome = "ok" /\ CaptionObtained /\ caption_repo.index # None
               /\ Ntotal(caption_repo.index) > 0)
              => result \in SearchByEmbedding(caption_repo, Embed(CaptionText), EffectiveImageK)

\* the captioning call gave a blank text for a PIL image while the caption index held
\* an entry: the search raised
C17_Witness ==
    /\ Searched("search_by_caption_A")
    /\ call.query_image.kind = "pil"
    /\ call.gw.cap = "blank"
    /\ call.gw.emb
    /\ caption_repo.index # None
    /\ Ntotal(caption_repo.index) > 0
    /\ outcome = "RuntimeError"
    /\ result = <<>>

\* C18: search_by_description_A, when a non-blank caption is obtained for the image,
\* returns the vector repository's similarity results for that caption, at most k of
\* them, and no error
C18_ByDescriptionReturnsVectorResults ==
    (Searched("search_by_description_A") /\ CaptionObtained /\ call.gw.emb) =>
        /\ outcome = "ok"
        /\ Len(result) <= EffectiveImageK
        /\ result \in {v.result : v \in VecSearchSimilar(vector_repo, CaptionText,
                                                          EffectiveImageK, TRUE)}


(***************************************************************************)
(* The multi-stage pipeline                                                *)
(***************************************************************************)
Entered == target = "strategy" /\ pipeline.status # "none"

\* a is the beginning of b
IsPrefix(a, b) == Len(a) <= Len(b) /\ \A i \in 1..Len(a) : a[i] = b[i]

\* C19: execute_multi_stage executes the stages in configured order, each once and
\* never again, and ends in one of two ways: every stage completed and the result
\* returned with one stage record per stage in stage order, or the first stage that
\* raises ends the call with its error, no result and no later stage executed
C19_StagesInOrderOrFirstError ==
    Entered =>
        LET stages == pipeline.config.stages
            records == pipeline.stage_results
        IN /\ pipeline.status \in {"running", "finalized", "failed"}
           /\ pipeline.attempts = [i \in 1..Len(pipeline.attempts) |-> i]
           /\ Len(pipeline.attempts) <= Len(stages)
           /\ \A i \in 1..Len(records) :
                 /\ records[i].stage = i
                 /\ records[i].method = stages[i].method
                 /\ records[i].limit = stages[i].limit
                 /\ records[i].results_count = Len(pipeline.outputs[i])
           /\ pipeline.status = "running" =>
                 /\ Len(records) = Len(pipeline.attempts)
                 /\ outcome = "running" /\ result = <<>>
           /\ pipeline.status = "finalized" =>
                 /\ Len(pipeline.attempts) = Len(stages)
                 /\ Len(records) = Len(stages)
                 /\ outcome = "ok"
                 /\ result.stage_details = records
                 /\ result.total_results = Len(result.results)
           /\ pipeline.status = "failed" =>
                 /\ Len(records) = Len(pipeline.attempts) - 1
                 /\ outcome \notin {"ok", "running"}
                 /\ result = <<>>

\* the second of two stages raised after the first had given candidates: the call
\* ended with the error and without results
C19_Witness ==
    /\ Entered
    /\ pipeline.status = "failed"
    /\ pipeline.attempts = <<1, 2>>
    /\ Len(pipeline.outputs) = 1
    /\ Len(pipeline.outputs[1]) > 0
    /\ outcome = "ValueError"
    /\ result = <<>>

\* C20: every stage after the first gives the first min(limit, size of the previous
\* output) candidates of the previous stage in their order and calls no search
\* primitive; every stage gives at most its limit; the final result is a prefix of the
\* first stage's output of at most final_limit ids
C20_LaterStagesOnlyTruncate ==
    Entered =>
        LET stages == pipeline.config.stages
            outputs == pipeline.outputs
        IN /\ \A i \in 2..Len(outputs) :
                 /\ IsPrefix(outputs[i], outputs[i - 1])
                 /\ Len(outputs[i]) = Min(stages[i].limit, Len(outputs[i - 1]))
                 /\ pipeline.calls[i] = pipeline.calls[i - 1]
           /\ \A i \in 1..Len(outputs) : Len(outputs[i]) <= stages[i].limit
           /\ Len(outputs) > 0 => Len(requests) = pipeline.calls[1]
           /\ pipeline.status = "finalized" =>
                 /\ IsPrefix(result.results, outputs[1])
                 /\ Len(result.results) <= pipeline.config.final_limit
                 /\ Len(result.results) =
                        Min(pipeline.config.final_limit, Len(outputs[Len(outputs)]))

\* a BM25 stage of limit 1 followed a stage that had found two products: it gave the
\* first of them without a search, and the call returned that one id
C20_Witness ==
    /\ Entered
    /\ pipeline.status = "finalized"
    /\ Len(pipeline.config.stages) = 2
    /\ pipeline.config.stages[2].method = "bm25"
    /\ pipeline.config.stages[2].limit = 1
    /\ Len(pipeline.outputs[1]) = 2
    /\ pipeline.outputs[2] = <<pipeline.outputs[1][1]>>
    /\ pipeline.config.final_limit = 2
    /\ result.results = pipeline.outputs[2]
    /\ Len(requests) = 1

(***************************************************************************)
(* VectorRepository: the id-maps and the vectors behind them               *)
(***************************************************************************)
\* product_id_map and id_to_index_map are mutual inverses over exactly the stored ids
MapsInverse(repo) ==
    /\ DOMAIN repo.id_to_index_map = Keys(repo.products)
    /\ \A id \in DOMAIN repo.id_to_index_map :
          /\ repo.id_to_index_map[id] \in DOMAIN repo.product_id_map
          /\ repo.product_id_map[repo.id_to_index_map[id]] = id
    /\ \A slot \in DOMAIN repo.product_id_map :
          /\ repo.product_id_map[slot] \in DOMAIN repo.id_to_index_map
          /\ repo.id_to_index_map[repo.product_id_map[slot]] = slot

\* the index holds, at the slot of every product, the embedding of its current text
SlotsCurrent(repo) ==
    \A id \in Keys(repo.products) :
        LET slot == repo.id_to_index_map[id]
        IN /\ slot < Ntotal(repo.index)
           /\ TheValue(repo.index)[slot + 1] = Embed(get_combined_text(GetProduct(repo.products, id)))

\* C29: in VectorRepository every Add/Update/Delete that returns, made when the two
\* id-maps are mutual inverses over the stored ids and every product's slot holds the
\* embedding of its current text, leaves them so.
C29_MapsInverseAndSlotsCurrent ==
    [][(/\ target = "vector" /\ call'.op \in Mutations /\ outcome' = "ok"
        /\ MapsInverse(vector_repo) /\ SlotsCurrent(vector_repo))
          => (MapsInverse(vector_repo') /\ SlotsCurrent(vector_repo'))]_vars

(***************************************************************************)
(* generate_embedding: attempts, backoff and the way it ends               *)
(***************************************************************************)
\* generate_embedding has ended on a text that passes the blank check
EmbeddingEnded ==
    target = "embedding" /\ threads[1].pc = "done" /\ call.text # BlankQuery

\* the calls of client.embeddings.create made
Attempts == SelectSeq(requests, LAMBDA e : e.kind = "create")

\* between two API calls there is exactly one sleep, of 2^attempt seconds, after a
\* failed call; nothing is slept before the first call or after the last one
BackoffBetweenAttempts ==
    /\ \A i \in 1..Len(requests) :
          IF i % 2 = 1
          THEN /\ requests[i].kind = "create"
               /\ requests[i].attempt = (i - 1) \div 2
               /\ (i < Len(requests)) => ~requests[i].answered
          ELSE /\ requests[i] = Slept(2 ^ requests[i - 1].attempt)
               /\ i < Len(requests)

\* C28: generate_embedding calls the API at most MAX_RETRIES times, returns the first
\* successful response, sleeps 2^attempt seconds only between a failed attempt and
\* the next one, raises after MAX_RETRIES consecutive failures, and for every
\* configured MAX_RETRIES ends by returning an embedding or raising, never by
\* returning no value.
C28_RetriesThenEmbeddingOrError ==
    EmbeddingEnded
        => /\ Len(Attempts) <= call.max_retries
           /\ BackoffBetweenAttempts
           /\ outcome \in {"ok", "Exception"}
           /\ (outcome = "ok")
                 => /\ result = Some(Embed(call.text))
                    /\ Attempts # <<>> /\ Attempts[Len(Attempts)].answered
           /\ (outcome = "Exception")
                 => /\ Len(Attempts) = call.max_retries
                    /\ \A i \in 1..Len(Attempts) : ~Attempts[i].answered

GatewayErrors == {"Exception", "UnboundLocalError"}

\* C26: an Add, Update or Delete that ends in a gateway failure leaves the
\* repository's products, id-maps and backing index exactly as they were.
C26_GatewayFailureChangesNothing ==
    [][(call'.op \in Mutations /\ outcome' \in GatewayErrors)
          => DrivenRepo' = DrivenRepo]_vars

(***************************************************************************)
(* ProductService: maintenance, partial updates and restarts               *)
(***************************************************************************)
FaissRepoNames == {"vector_repo", "image_repo", "caption_repo"}

\* every repository of service state s holds the products `current` and has exactly
\* one backing-index entry for each of them
RebuiltFrom(s, current) ==
    /\ \A r \in FaissRepoNames :
          /\ Keys(s[r].products) = Keys(current)
          /\ DOMAIN s[r].id_to_index_map = Keys(current)
          /\ Ntotal(s[r].index) = Len(current)
    /\ Keys(s.bm25_repo.products) = Keys(current)
    /\ s.bm25_repo.documents = DocumentsOf(current)

\* C24: when rebuild_indexes returns, the vector, BM25, image and caption
\* repositories each hold exactly one backing-index entry per current product and
\* nothing else.
C24_RebuildAllRebuildsEveryRepository ==
    [][(call'.op = "rebuild_indexes" /\ outcome' = "ok")
          => RebuiltFrom(ServiceState', vector_repo.products)]_vars

\* C25: update_product of a product that exists, given only some of title,
\* description and image (the gateways answering), returns, and the stored product
\* keeps its prior value in every field that was not given.
C25_UpdateKeepsUnsuppliedFields ==
    [][(/\ call'.op = "update_product" /\ call'.id \in Keys(vector_repo.products)
        /\ Absent \in {TheValue(call'.product).title, TheValue(call'.product).description,
                       TheValue(call'.product).image_url}
        /\ {TheValue(call'.product).title, TheValue(call'.product).description,
            TheValue(call'.product).image_url} # {Absent})
          => /\ outcome' = "ok"
             /\ call'.id \in Keys(vector_repo'.products)
             /\ LET args == TheValue(call'.product)
                    before == GetProduct(vector_repo.products, call'.id)
                    after == GetProduct(vector_repo'.products, call'.id)
                IN /\ (args.title = Absent) => after.title = before.title
                   /\ (args.description = Absent) => after.description = before.description
                   /\ (args.image_url = Absent) => after.image_url = before.image_url]_vars

CatalogMutations == {"create_product", "update_product", "delete_product", "clear_all_data"}

\* C30: after a create_product, update_product, delete_product or clear_all_data that
\* returns, a new ProductService loading the snapshots holds exactly the products of
\* the running one (none when the last product was deleted or all data cleared).
C30_ReloadHoldsSameProducts ==
    [][(call'.op \in CatalogMutations /\ outcome' = "ok")
          => ProductServiceInit(disk').vector_repo.products = vector_repo'.products]_vars

\* the two calls of the overlap have both ended
BothEnded == threads # NoThreads /\ \A i \in ThreadIds : threads[i].pc = "done"

MutationCalls == {"add_product", "update_product", "delete_product"}

SearchCalls == {"search_similar", "search_keywords"}

\* the vector repository after the mutation of thread record t made on its own
Alone(repo, t) ==
    CASE t.op = "add_product" -> VecAddProduct(repo, TheValue(t.product), TRUE).repo
      [] t.op = "update_product" -> VecUpdateProduct(repo, TheValue(t.product), TRUE).repo
      [] t.op = "delete_product" -> VecDeleteProduct(repo, t.id, TRUE).repo

\* the states two mutations leave when one runs after the other, or when the later
\* one is rejected
OneAfterTheOther(before, a, b) ==
    {Alone(Alone(before, a), b), Alone(Alone(before, b), a), Alone(before, a), Alone(before, b)}

\* C21: when two mutations (add_product, update_product, delete_product with its
\* rebuild) made by two threads on one VectorRepository have both ended, the
\* repository is in the state that running them one after the other in some order
\* (or rejecting the later one) leaves.
C21_ConcurrentMutationsSerialize ==
    (BothEnded /\ \A i \in ThreadIds : threads[i].op \in MutationCalls)
        => vector_repo \in OneAfterTheOther(call.before.vector_repo, threads[1], threads[2])

\* what the search of thread record t ended with
EndedWith(t) == [result |-> t.result, raised |-> t.raised]

\* C22: a search_similar overlapping an update_product or delete_product (each ends in
\* _rebuild_index) ends as it would on the repository before that call or on the
\* repository after it, never as on a state in between.
C22_SearchSeesRebuildAtomically ==
    \A i, j \in ThreadIds :
        (/\ threads # NoThreads
         /\ threads[i].op = "search_similar" /\ threads[i].pc = "done"
         /\ threads[j].op \in {"update_product", "delete_product"})
            => EndedWith(threads[i]) \in
                  VecSearchSimilar(call.before.vector_repo, threads[i].query, threads[i].k, TRUE)
                  \cup VecSearchSimilar(Alone(call.before.vector_repo, threads[j]),
                                        threads[i].query, threads[i].k, TRUE)

\* what the search of thread record t may end with on repositories no other call touches
SearchedAlone(before, t) ==
    IF t.op = "search_keywords" THEN BM25SearchKeywords(before.bm25_repo, t.query, t.k)
    ELSE VecSearchSimilar(before.vector_repo, t.query, t.k, TRUE)

\* C23: when two overlapping searches have both ended, both repositories are as they
\* were before, retriever.k included, and each search ends as it may when made alone.
C23_SearchesLeaveNoTrace ==
    (BothEnded /\ \A i \in ThreadIds : threads[i].op \in SearchCalls)
        => /\ vector_repo = call.before.vector_repo
           /\ bm25_repo = call.before.bm25_repo
           /\ \A i \in ThreadIds : EndedWith(threads[i]) \in SearchedAlone(call.before, threads[i])

====
